---------------------------- MODULE Spec2Model ----------------------------
(***************************************************************************)
(* The concurrent filesystem scanner of SpaceForce (scanner/scanner.go,    *)
(* scanner/models.go) together with the progress forwarder of main.go.     *)
(*                                                                         *)
(* One traversal task is one goroutine running scanDirectoryParallel; the  *)
(* task of the root directory is the caller of Scan itself.  A task below  *)
(* the parallel cutoff runs scanDirectorySequential on a call stack.       *)
(* The filesystem is a test double: a fixed universe of paths with fixed   *)
(* attributes, and a scenario that says what each directory lists.         *)
(***************************************************************************)
EXTENDS Integers, Sequences, FiniteSets, TLC

(***************************************************************************)
(* Bounds of the model.                                                    *)
(***************************************************************************)
\* capacity of workerSem; the program uses 8 (NewScanner), scaled down so
\* that small trees exhaust it
GateCap == 2
\* buffer of the progress channel; the program uses 100 (runTUI)
ChanCap == 1
\* entry-count flush threshold; the program uses 100 (updateProgress)
FlushEvery == 2
\* how many times more than FlushInterval may pass between two readings of
\* the clock during one scan
MaxGaps == 1
\* bits of the signed integer that holds a size; the program uses int64
SizeBits == 8

(***************************************************************************)
(* Program constants.                                                      *)
(***************************************************************************)
\* parallel cutoff: "if depth < 2"
ParallelDepthDeeper == 2 + 1
ParallelDepth == 2
\* buffer of the result channel of one listing: "make(chan result, 1)"
ResultChanUnbuffered == 1 - 1
ResultChanCap == 1
\* flush interval in ms: "now - s.lastProgressUpdate > 100"
FlushInterval == 100
\* time.Now().UnixMilli() when the scan starts (any value above FlushInterval)
StartTime == 1000

NULL == "null"

(***************************************************************************)
(* The filesystem double.                                                  *)
(***************************************************************************)
Root == "/r"

Paths ==
  { "/r", "/r/a", "/r/b", "/r/a/x", "/r/a/y", "/r/a/z", "/r/b/y",
    "/r/a/x/d", "/r/a/x/d/f", "/r/a/f", "/r/b/g", "/r/f",
    "/r/.h.icloud", "/r/net", "/r/bad", "/r/ext",
    "/r/a/gone", "/r/b/y/lost", "/r/bind", "/r/ext/f", "/r/b/h",
    "/r/up", "/r/up/f", "/r/up/up", "/r/a/y/.d.icloud" }

\* os.DirEntry.Name, as its characters
Name(p) ==
  CASE p = "/r" -> << "r" >>
    [] p = "/r/a" -> << "a" >>
    [] p = "/r/b" -> << "b" >>
    [] p = "/r/a/x" -> << "x" >>
    [] p = "/r/a/y" -> << "y" >>
    [] p = "/r/a/z" -> << "z" >>
    [] p = "/r/b/y" -> << "y" >>
    [] p = "/r/a/x/d" -> << "d" >>
    [] p = "/r/a/x/d/f" -> << "f" >>
    [] p = "/r/a/f" -> << "f" >>
    [] p = "/r/b/g" -> << "g" >>
    [] p = "/r/f" -> << "f" >>
    [] p = "/r/.h.icloud" -> << ".", "h", ".", "i", "c", "l", "o", "u", "d" >>
    [] p = "/r/net" -> << "n", "e", "t" >>
    [] p = "/r/bad" -> << "b", "a", "d" >>
    [] p = "/r/ext" -> << "e", "x", "t" >>
    [] p = "/r/a/gone" -> << "g", "o", "n", "e" >>
    [] p = "/r/b/y/lost" -> << "l", "o", "s", "t" >>
    [] p = "/r/bind" -> << "b", "i", "n", "d" >>
    [] p = "/r/ext/f" -> << "f" >>
    [] p = "/r/b/h" -> << "h" >>
    [] p = "/r/up" -> << "u", "p" >>
    [] p = "/r/a/y/.d.icloud" -> << ".", "d", ".", "i", "c", "l", "o", "u", "d" >>
    [] p = "/r/up/f" -> << "f" >>
    [] p = "/r/up/up" -> << "u", "p" >>

\* os.FileInfo.IsDir
IsDir(p) ==
  p \in { "/r", "/r/a", "/r/b", "/r/a/x", "/r/a/y", "/r/a/z", "/r/b/y",
          "/r/a/x/d", "/r/net", "/r/ext", "/r/up", "/r/up/up",
          "/r/a/y/.d.icloud" }

\* os.FileInfo.Size (files only; the size of a directory entry is not used):
\* /r/a/f and /r/b/g are sparse files of a quarter of the integer range each
Size(p) ==
  CASE p = "/r/f"       -> 10
    [] p = "/r/a/f"     -> 2 ^ (SizeBits - 2)
    [] p = "/r/b/g"     -> 2 ^ (SizeBits - 2)
    [] p = "/r/a/x/d/f" -> 20
    [] p = "/r/bind"    -> 5
    [] p = "/r/b/h"     -> 20
    [] p = "/r/up/f"    -> 10
    [] OTHER            -> 0

\* syscall.Stat_t.Dev: /r/ext is a mount point of another filesystem,
\* /r/bind is a file of that filesystem bind-mounted into /r, and the share
\* mounted at /r/net is a device of its own
Dev(p) ==
  IF p \in { "/r/ext", "/r/ext/f", "/r/bind" } THEN 2
  ELSE IF p = "/r/net" THEN 3 ELSE 1

\* filepath.Dir
Dir(p) ==
  CASE p \in { "/r/a", "/r/b", "/r/f", "/r/.h.icloud", "/r/net", "/r/bad",
               "/r/ext", "/r/bind", "/r/up" } -> "/r"
    [] p \in { "/r/a/x", "/r/a/y", "/r/a/z", "/r/a/f", "/r/a/gone" } -> "/r/a"
    [] p \in { "/r/b/y", "/r/b/g", "/r/b/h" } -> "/r/b"
    [] p = "/r/a/x/d" -> "/r/a/x"
    [] p = "/r/a/x/d/f" -> "/r/a/x/d"
    [] p = "/r/b/y/lost" -> "/r/b/y"
    [] p = "/r/ext/f" -> "/r/ext"
    [] p \in { "/r/up/f", "/r/up/up" } -> "/r/up"
    [] p = "/r/a/y/.d.icloud" -> "/r/a/y"
    [] OTHER -> "/"

\* syscall.Statfs_t.Fstypename, lower case: /r/net is an SMB share
FsType(p) == IF p = "/r/net" THEN "smbfs" ELSE "apfs"

\* the reason isCloudBackedPath gives for a path below a cloud-sync
\* directory of the home directory; no path of the double lies there
CloudReason(p) == NULL

\* syscall.Stat_t.Ino: /r/a/x and /r/b/y are one physical directory
Ino(p) ==
  CASE p \in { "/r", "/r/up", "/r/up/up" } -> 1
    [] p = "/r/up/f"    -> 12
    [] p = "/r/a"       -> 2
    [] p = "/r/b"       -> 3
    [] p = "/r/a/y"     -> 4
    [] p = "/r/a/z"     -> 5
    [] p = "/r/a/x"     -> 7
    [] p = "/r/b/y"     -> 7
    [] p = "/r/a/x/d"   -> 8
    [] p = "/r/a/x/d/f" -> 9
    [] p = "/r/a/f"     -> 10
    [] p = "/r/b/g"     -> 11
    [] p = "/r/f"       -> 12
    [] p = "/r/net"     -> 13
    [] p = "/r/bad"     -> 14
    [] p = "/r/ext"     -> 15
    [] OTHER            -> 16

\* the trees the double can play, each with or without a progress channel:
\*   wide   /r{a{x,y{.d.icloud},z}} more sibling directories than gate slots
\*   pair   /r{a{f},b{g}}          two tasks visiting entries concurrently
\*   alias  /r{a{x},b{y}}          x and y are the same (device, inode)
\*   deep   /r{a{x{d{f}}},f}       recursion below the parallel cutoff
\*   mixed  /r{.h.icloud,net,bad,ext{f},bind,f}  entries that are skipped or fail
\*   stat   /r{a{gone,f},b{y{lost}}}     entries removed after the listing
\*   sample /r{f,b{h}}                   a file of 10 bytes, a directory with a file of 20
\*   loop   /r{up{up,f},f}               up is the root directory under a second name
\*   home   /r{bad,a{f}}                 run by the terminal UI; a is the home directory
Scenarios ==
  { << "wide", FALSE >>, << "pair", TRUE >>, << "alias", FALSE >>,
    << "deep", TRUE >>, << "mixed", FALSE >>, << "stat", FALSE >>,
    << "sample", TRUE >>, << "loop", FALSE >>, << "home", TRUE >> }

\* what os.ReadDir returns for directory d when it succeeds
Listing(s, d) ==
  CASE s = "wide" ->
         (CASE d = "/r"   -> << "/r/a" >>
            [] d = "/r/a" -> << "/r/a/x", "/r/a/y", "/r/a/z" >>
            [] d = "/r/a/y" -> << "/r/a/y/.d.icloud" >>
            [] OTHER      -> << >>)
    [] s = "pair" ->
         (CASE d = "/r"   -> << "/r/a", "/r/b" >>
            [] d = "/r/a" -> << "/r/a/f" >>
            [] d = "/r/b" -> << "/r/b/g" >>
            [] OTHER      -> << >>)
    [] s = "alias" ->
         (CASE d = "/r"   -> << "/r/a", "/r/b" >>
            [] d = "/r/a" -> << "/r/a/x" >>
            [] d = "/r/b" -> << "/r/b/y" >>
            [] OTHER      -> << >>)
    [] s = "mixed" ->
         (CASE d = "/r"     -> << "/r/.h.icloud", "/r/net", "/r/bad", "/r/ext",
                                  "/r/bind", "/r/f" >>
            [] d = "/r/ext" -> << "/r/ext/f" >>
            [] OTHER        -> << >>)
    [] s = "home" ->
         (CASE d = "/r"   -> << "/r/bad", "/r/a" >>
            [] d = "/r/a" -> << "/r/a/f" >>
            [] OTHER      -> << >>)
    [] s = "loop" ->
         (CASE d \in { "/r", "/r/up" } -> << d \o "/up", d \o "/f" >>
            [] OTHER -> << >>)
    [] s = "sample" ->
         (CASE d = "/r"   -> << "/r/f", "/r/b" >>
            [] d = "/r/b" -> << "/r/b/h" >>
            [] OTHER      -> << >>)
    [] s = "stat" ->
         (CASE d = "/r"     -> << "/r/a", "/r/b" >>
            [] d = "/r/a"   -> << "/r/a/gone", "/r/a/f" >>
            [] d = "/r/b"   -> << "/r/b/y" >>
            [] d = "/r/b/y" -> << "/r/b/y/lost" >>
            [] OTHER        -> << >>)
    [] s = "deep" ->
         (CASE d = "/r"       -> << "/r/a", "/r/f" >>
            [] d = "/r/a"     -> << "/r/a/x" >>
            [] d = "/r/a/x"   -> << "/r/a/x/d" >>
            [] d = "/r/a/x/d" -> << "/r/a/x/d/f" >>
            [] OTHER          -> << >>)

\* what a call of os.ReadDir on d can do in scenario s: return the entries,
\* return an error, or hang beyond dirReadTimeout (/r/a/z of "wide" is a
\* dead mount: every call hangs)
Outcomes(s, d) ==
  CASE s = "wide" ->
         (CASE d = "/r/a/x" -> { "ok", "err", "hang" }
            [] d = "/r/a/z" -> { "hang" }
            [] OTHER        -> { "ok" })
    [] s = "deep" ->
         (CASE d = "/r"       -> { "ok", "err" }
            [] d = "/r/a/x"   -> { "ok", "hang" }
            [] d = "/r/a/x/d" -> { "ok", "err", "hang" }
            [] OTHER          -> { "ok" })
    [] OTHER -> { "ok" }

\* a directory read that waits for os.ReadDir alone
readDirWithoutTimeout(o) == IF o = "hang" THEN {} ELSE { o }

\* the select of readDirWithTimeout: what the caller gets when os.ReadDir
\* does o, the result from resultChan or the timeout error from ctx.Done()
readDirWithTimeout(o) == IF o = "hang" THEN { "timeout" } ELSE { o }

\* strings.HasPrefix and strings.HasSuffix
HasPrefix(str, pre) == Len(str) >= Len(pre) /\ SubSeq(str, 1, Len(pre)) = pre
HasSuffix(str, suf) ==
  Len(str) >= Len(suf) /\ SubSeq(str, Len(str) - Len(suf) + 1, Len(str)) = suf

\* no name is taken for a placeholder
isICloudPlaceholderNever(name) == FALSE

\* isICloudPlaceholder: the name starts with "." and ends with ".icloud"
isICloudPlaceholder(name) ==
  /\ HasPrefix(name, << "." >>)
  /\ HasSuffix(name, << ".", "i", "c", "l", "o", "u", "d" >>)

\* networkFSTypes of isNetworkVolume
NetworkFSTypes ==
  { "nfs", "smbfs", "afpfs", "cifs", "webdav", "ftp", "davfs", "mtpfs" }

\* VolumeChecker.ShouldSkipPath: with skipNetwork, a cloud-backed path or a
\* path on a network filesystem (no path of the double is below /net/,
\* /Network/ or /Volumes/)
ShouldSkipPath(skipNet, p) ==
  skipNet /\ (CloudReason(p) # NULL \/ FsType(p) \in NetworkFSTypes)

\* the reason ShouldSkipPath returns
SkipReason(p) ==
  IF CloudReason(p) # NULL THEN CloudReason(p) ELSE "network volume"

\* entry.Info() fails for the entries that were removed after the listing
StatFails(p) == p \in { "/r/bad", "/r/a/gone", "/r/b/y/lost" }

\* path q lies below directory p
RECURSIVE Under(_, _)
Under(q, p) == q \in Paths /\ q # Root /\ (Dir(q) = p \/ Under(Dir(q), p))

\* what getSensitivePaths returns when the home directory is /r/a
SensitivePaths == { "/r/a" }

(***************************************************************************)
(* State.                                                                  *)
(***************************************************************************)
VARIABLES
  fs,                 \* the scenario the double plays
  chanGiven,          \* progressChan # nil
  oneFilesystem,      \* Scanner.oneFilesystem
  skipNetwork,        \* VolumeChecker.skipNetwork
  scanPc,             \* position of the caller inside Scan
  retRoot, retErr,    \* what Scan returned
  cancelled,          \* ctx.Done() is closed
  root,               \* Scanner.root
  startDeviceID,      \* Scanner.startDeviceID
  children,           \* FileNode.Children of every created node
  parent,             \* FileNode.Parent of every created node
  pc,                 \* position of every traversal task
  stack,              \* call frames of every traversal task
  workerSem,          \* tasks whose token is in the semaphore channel
  abandoned,          \* reader goroutines left behind by a timeout
  progress,           \* Scanner.progress
  lastProgressUpdate, \* Scanner.lastProgressUpdate
  now,                \* the wall clock, ms
  progressChan,       \* buffered snapshots
  chanClosed,         \* close(progressChan) has run
  skippedVolumes,     \* Scanner.skippedVolumes
  seenInodes,         \* Scanner.seenInodes
  delivered,          \* the forwarder's loop variable: << >>, or the snapshot last received
  consumerDone,       \* the forwarder's range loop has ended
  sawCancel,          \* tasks that have taken a ctx.Done() branch
  m,                  \* ui.Model
  fwdPending,         \* the forwarder holds a snapshot it has not yet handed to p.Send
  quit,               \* the UI program has quit (tea.Quit)
  filesToDelete,      \* << >>, or the marked set copied by a running startDeletion command
  tlv,                \* << >>, or the views.TopListView in a tuple
  prev                \* << >>, or what the caller keeps of an earlier Scan call on this Scanner

vars ==
  << fs, chanGiven, oneFilesystem, skipNetwork, scanPc, retRoot, retErr,
     cancelled, root, startDeviceID, children, parent, pc, stack, workerSem,
     abandoned, progress, lastProgressUpdate, now, progressChan, chanClosed,
     skippedVolumes, seenInodes, delivered, consumerDone, sawCancel,
     m, fwdPending, quit, filesToDelete, tlv, prev >>

Tasks == { p \in Paths : IsDir(p) }

\* Scan is called by runTUI, which shows the result in the terminal UI
UnderTUI == fs = "home"

\* scanner.NewScanner and a fresh context, channel and forwarder (runTUI)
Init ==
  /\ \E sc \in Scenarios : fs = sc[1] /\ chanGiven = sc[2]
  /\ oneFilesystem = TRUE
  /\ skipNetwork = TRUE
  /\ scanPc = "init"
  /\ retRoot = NULL
  /\ retErr = "none"
  /\ cancelled = FALSE
  /\ root = NULL
  /\ startDeviceID = 0
  /\ children = [p \in Paths |-> << >>]
  /\ parent = [p \in Paths |-> NULL]
  /\ pc = [t \in Tasks |-> "idle"]
  /\ stack = [t \in Tasks |-> << >>]
  /\ workerSem = {}
  /\ abandoned = 0
  /\ progress = [path |-> NULL, files |-> 0, bytes |-> 0, errors |-> << >>,
                 complete |-> FALSE, icloud |-> 0]
  /\ lastProgressUpdate = 0
  /\ now = StartTime
  /\ progressChan = << >>
  /\ chanClosed = FALSE
  /\ skippedVolumes = << >>
  /\ seenInodes = {}
  /\ delivered = << >>
  /\ consumerDone = FALSE
  /\ sawCancel = {}
  /\ m = [scanning |-> TRUE, root |-> NULL, err |-> "none",
          progress |-> [path |-> NULL, files |-> 0, bytes |-> 0, nerr |-> 0,
                        complete |-> FALSE],
          skippedVolumes |-> << >>,
          visible |-> {}, errorsView |-> << >>, markedFiles |-> {},
          activeModal |-> "none", sensitiveDeleteConfirmed |-> FALSE]
  /\ fwdPending = FALSE
  /\ quit = FALSE
  /\ filesToDelete = << >>
  /\ tlv = << >>
  /\ prev = << >>

(***************************************************************************)
(* Helpers.                                                                *)
(***************************************************************************)
\* one activation of scanDirectoryParallel (par) or scanDirectorySequential
Frame(node, depth, par) ==
  [node |-> node, depth |-> depth, par |-> par, entries |-> << >>,
   res |-> "none", idx |-> 1]

Top(t) == stack[t][Len(stack[t])]
Entry(t) == Top(t).entries[Top(t).idx]
Pop(st) == SubSeq(st, 1, Len(st) - 1)

\* the loop variable moves to the next entry of the listing
NextEntry(st) == [st EXCEPT ![Len(st)].idx = @ + 1]

\* scanDirectorySequential returns: to the entry loop of its caller, or to
\* scanDirectoryParallel, which then returns too
AfterReturn(st) ==
  IF Pop(st)[Len(st) - 1].par THEN Pop(st) ELSE NextEntry(Pop(st))
PcAfterReturn(st) ==
  IF Pop(st)[Len(st) - 1].par THEN "done" ELSE "seqLoop"

\* the value copied into the channel by "progressChan <- *s.progress"
Snapshot(p) ==
  [path |-> p.path, files |-> p.files, bytes |-> p.bytes,
   nerr |-> Len(p.errors), complete |-> p.complete]

\* a plain send, which blocks while the buffer is full
SendReadyBlocking(ch) == Len(ch) < ChanCap

\* a send inside "select { ... default: }" never blocks
SendReady(ch) == TRUE

\* select { case progressChan <- v: default: }
TrySend(ch, v) == IF Len(ch) < ChanCap THEN Append(ch, v) ELSE ch

\* an append made on a stale copy of the slice: the entry takes the place of
\* the one appended last
recordErrorLost(p, path, kind) ==
  [p EXCEPT !.errors =
     IF Len(@) = 0 THEN << [path |-> path, kind |-> kind] >>
     ELSE [@ EXCEPT ![Len(@)] = [path |-> path, kind |-> kind]]]

\* Scanner.recordError
recordError(p, path, kind) ==
  [p EXCEPT !.errors = Append(@, [path |-> path, kind |-> kind])]

\* the token stays in the semaphore while the task goes on
SlotsKept(sem, t) == sem

\* the token of task t leaves the semaphore: "<-s.workerSem"
SlotsAfterListing(sem, t) == sem \ {t}

\* Scanner.hasSeenInode
hasSeenInode(seen, dev, ino) == << dev, ino >> \in seen

\* Scanner.markInodeSeen
markInodeSeen(seen, dev, ino) == seen \cup { << dev, ino >> }

\* the test of the oneFilesystem flag is inverted
BoundaryFlagInverted(p) == ~oneFilesystem /\ Dev(p) # startDeviceID

\* Scanner.shouldSkipFilesystemBoundary
shouldSkipFilesystemBoundary(p) == oneFilesystem /\ Dev(p) # startDeviceID

\* the current path is set and the entry is not counted
VisitedUncounted(p, path) == [p EXCEPT !.path = path]

\* a counter that starts again after each batch of FlushEvery entries
VisitedPerBatch(p, path) ==
  [p EXCEPT !.path = path, !.files = IF @ >= FlushEvery THEN 1 ELSE @ + 1]

\* "s.progress.CurrentPath = currentPath; s.progress.FilesScanned++"
Visited(p, path) == [p EXCEPT !.path = path, !.files = @ + 1]

\* what time.Now() can have advanced by since it was last read
\* (the reading is used only when a channel is given)
Deltas == IF chanGiven THEN { 0, FlushInterval + 1 } ELSE { 0 }

\* updateProgress without the throttle: every visited entry is offered to
\* the channel
updateProgressUnthrottled(path) ==
  \E d \in Deltas :
    /\ now + d <= StartTime + MaxGaps * (FlushInterval + 1)
    /\ now' = now + d
    /\ LET p2 == Visited(progress, path) IN
         /\ progress' = p2
         /\ IF chanGiven
              THEN /\ lastProgressUpdate' = now'
                   /\ progressChan' = TrySend(progressChan, Snapshot(p2))
              ELSE UNCHANGED << lastProgressUpdate, progressChan >>

\* Scanner.updateProgress, one critical section of s.mu
updateProgress(path) ==
  \E d \in Deltas :
    /\ now + d <= StartTime + MaxGaps * (FlushInterval + 1)
    /\ now' = now + d
    /\ LET p2 == Visited(progress, path) IN
         /\ progress' = p2
         /\ IF chanGiven /\ (now' - lastProgressUpdate > FlushInterval
                             \/ p2.files % FlushEvery = 0)
              THEN /\ SendReady(progressChan)
                   /\ lastProgressUpdate' = now'
                   /\ progressChan' = TrySend(progressChan, Snapshot(p2))
              ELSE UNCHANGED << lastProgressUpdate, progressChan >>

\* the child is put in front of the list
AddChildFirst(n, c) ==
  /\ children' = [children EXCEPT ![n] = << c >> \o @]
  /\ parent' = [parent EXCEPT ![c] = n]

\* AddChild without the back-reference
AddChildNoParent(n, c) ==
  /\ children' = [children EXCEPT ![n] = Append(@, c)]
  /\ parent' = parent

\* AddChild appending the node twice
AddChildTwice(n, c) ==
  /\ children' = [children EXCEPT ![n] = Append(Append(@, c), c)]
  /\ parent' = [parent EXCEPT ![c] = n]

\* FileNode.AddChild
AddChild(n, c) ==
  /\ children' = [children EXCEPT ![n] = Append(@, c)]
  /\ parent' = [parent EXCEPT ![c] = n]

config == << fs, chanGiven, oneFilesystem, skipNetwork >>
ui == << m, fwdPending, quit, filesToDelete, tlv, prev >>
result == << retRoot, retErr >>
tree == << children, parent >>
consumer == << delivered, consumerDone >>
clock == << now, lastProgressUpdate >>

(***************************************************************************)
(* Scan.                                                                   *)
(***************************************************************************)
\* the early returns of Scan: filepath.Abs fails ("invalid path"), os.Stat
\* fails ("cannot access path"), getDeviceID fails ("cannot get device ID")
RootFailures == { "abs", "stat", "dev" }

\* a failed Scan that hands out a root node all the same
FailedReturnWithRoot(fail) == << Root, fail >>

\* what Scan returns with when the root fails: "return nil, fmt.Errorf(...)"
FailedReturn(fail) == << NULL, fail >>

\* Scan up to the call of scanDirectoryParallel on the root
ScanBegin ==
  /\ scanPc = "init"
  /\ \E fail \in RootFailures \cup { "none" } :
       IF fail # "none"
         THEN /\ retRoot' = FailedReturn(fail)[1]
              /\ retErr' = FailedReturn(fail)[2]
              /\ scanPc' = "returned"
              /\ UNCHANGED << root, startDeviceID, pc, stack >>
         ELSE /\ startDeviceID' = IF oneFilesystem THEN Dev(Root) ELSE startDeviceID
              /\ root' = Root
              /\ IF IsDir(Root)
                   THEN /\ pc' = [pc EXCEPT ![Root] = "start"]
                        /\ stack' = [stack EXCEPT ![Root] = << Frame(Root, 0, TRUE) >>]
                   ELSE UNCHANGED << pc, stack >>
              /\ scanPc' = "traverse"
              /\ UNCHANGED result
  /\ UNCHANGED << ui, config, cancelled, tree, workerSem, abandoned, progress, clock,
                  progressChan, chanClosed, skippedVolumes, seenInodes, consumer,
                  sawCancel >>

\* a cancelled Scan that returns no error
CancelledReturnNoError == << Root, "none", FALSE >>

\* a cancelled Scan that drops the partial tree
CancelledReturnNil == << NULL, "ctx", FALSE >>

\* what Scan returns with when ctx.Err() # nil: root, error, Complete
CancelledReturn == << Root, "ctx", FALSE >>

\* the check after a traversal that was started without being waited for
ScanCheckWithoutWait ==
  /\ scanPc = "traverse"
  /\ IF cancelled
       THEN /\ retRoot' = CancelledReturn[1]
            /\ retErr' = CancelledReturn[2]
            /\ progress' = [progress EXCEPT !.complete = CancelledReturn[3]]
            /\ scanPc' = "returned"
       ELSE /\ progress' = [progress EXCEPT !.complete = TRUE]
            /\ scanPc' = IF chanGiven THEN "final" ELSE "return"
            /\ UNCHANGED result
  /\ UNCHANGED << ui, config, cancelled, root, startDeviceID, tree, pc, stack,
                  workerSem, abandoned, clock, progressChan, chanClosed,
                  skippedVolumes, seenInodes, consumer, sawCancel >>

\* Scan after the traversal: the ctx.Err() check, then "Mark complete"
ScanCheck ==
  /\ scanPc = "traverse"
  /\ IsDir(Root) => pc[Root] = "done"
  /\ IF cancelled
       THEN /\ retRoot' = CancelledReturn[1]
            /\ retErr' = CancelledReturn[2]
            /\ progress' = [progress EXCEPT !.complete = CancelledReturn[3]]
            /\ scanPc' = "returned"
       ELSE /\ progress' = [progress EXCEPT !.complete = TRUE]
            /\ scanPc' = IF chanGiven THEN "final" ELSE "return"
            /\ UNCHANGED result
  /\ UNCHANGED << ui, config, cancelled, root, startDeviceID, tree, pc, stack,
                  workerSem, abandoned, clock, progressChan, chanClosed,
                  skippedVolumes, seenInodes, consumer, sawCancel >>

\* the final non-blocking send
ScanFinalSend ==
  /\ scanPc = "final"
  /\ SendReady(progressChan)
  /\ progressChan' = TrySend(progressChan, Snapshot(progress))
  /\ scanPc' = "close"
  /\ UNCHANGED << ui, config, result, cancelled, root, startDeviceID, tree, pc, stack,
                  workerSem, abandoned, progress, clock, chanClosed,
                  skippedVolumes, seenInodes, consumer, sawCancel >>

\* close(progressChan)
ScanClose ==
  /\ scanPc = "close"
  /\ chanClosed' = TRUE
  /\ scanPc' = "return"
  /\ UNCHANGED << ui, config, result, cancelled, root, startDeviceID, tree, pc, stack,
                  workerSem, abandoned, progress, clock, progressChan,
                  skippedVolumes, seenInodes, consumer, sawCancel >>

\* return s.root, nil
ScanReturn ==
  /\ scanPc = "return"
  /\ retRoot' = root
  /\ retErr' = "none"
  /\ scanPc' = "returned"
  /\ UNCHANGED << ui, config, cancelled, root, startDeviceID, tree, pc, stack,
                  workerSem, abandoned, progress, clock, progressChan, chanClosed,
                  skippedVolumes, seenInodes, consumer, sawCancel >>

(***************************************************************************)
(* scanDirectoryParallel, one action per step of task t.                   *)
(***************************************************************************)
\* the cancellation check before starting
ParStart(t) ==
  /\ pc[t] = "start"
  /\ IF cancelled
       THEN pc' = [pc EXCEPT ![t] = "done"] /\ sawCancel' = sawCancel \cup {t}
       ELSE pc' = [pc EXCEPT ![t] = "acquire"] /\ UNCHANGED sawCancel
  /\ UNCHANGED << ui, config, scanPc, result, cancelled, root, startDeviceID, tree,
                  stack, workerSem, abandoned, progress, clock, progressChan,
                  chanClosed, skippedVolumes, seenInodes, consumer >>

\* "s.workerSem <- struct{}{}" blocks while the channel is full; the reader
\* goroutine of readDirWithTimeout starts
ParAcquire(t) ==
  /\ pc[t] = "acquire"
  /\ Cardinality(workerSem) < GateCap
  /\ workerSem' = workerSem \cup {t}
  /\ pc' = [pc EXCEPT ![t] = "listing"]
  /\ UNCHANGED << ui, config, scanPc, result, cancelled, root, startDeviceID, tree,
                  stack, abandoned, progress, clock, progressChan, chanClosed,
                  skippedVolumes, seenInodes, consumer, sawCancel >>

\* readDirWithTimeout returns to the frame on top of st with result o
ListingReturns(st, o) ==
  [st EXCEPT ![Len(st)].entries =
                IF o = "ok" THEN Listing(fs, st[Len(st)].node) ELSE << >>,
             ![Len(st)].res = o]

\* readDirWithTimeout returns; on a timeout the reader goroutine stays behind
ParListing(t) ==
  /\ pc[t] = "listing"
  /\ \E o \in Outcomes(fs, Top(t).node) : \E r \in readDirWithTimeout(o) :
       /\ stack' = [stack EXCEPT ![t] = ListingReturns(@, r)]
       /\ abandoned' = IF o = "hang" THEN abandoned + 1 ELSE abandoned
  /\ pc' = [pc EXCEPT ![t] = "release"]
  /\ UNCHANGED << ui, config, scanPc, result, cancelled, root, startDeviceID, tree,
                  workerSem, progress, clock, progressChan, chanClosed,
                  skippedVolumes, seenInodes, consumer, sawCancel >>

\* "<-s.workerSem", the error of the listing is recorded, and the depth
\* decides between the parallel loop and scanDirectorySequential
ParRelease(t) ==
  /\ pc[t] = "release"
  /\ workerSem' = SlotsAfterListing(workerSem, t)
  /\ progress' = IF Top(t).res = "ok" THEN progress
                 ELSE recordError(progress, Top(t).node, Top(t).res)
  /\ IF Top(t).depth < ParallelDepth
       THEN /\ pc' = [pc EXCEPT ![t] = "loop"]
            /\ UNCHANGED stack
       ELSE /\ pc' = [pc EXCEPT ![t] = "seqStart"]
            /\ stack' = [stack EXCEPT
                 ![t] = Append(@, Frame(Top(t).node, Top(t).depth, FALSE))]
  /\ UNCHANGED << ui, config, scanPc, result, cancelled, root, startDeviceID, tree,
                  abandoned, clock, progressChan, chanClosed, skippedVolumes,
                  seenInodes, consumer, sawCancel >>

\* top of the entry loop: the loop ends, or the cancellation check fires
\* (wg.Wait, return), or a placeholder is counted and skipped, or the entry
\* is visited
ParLoop(t) ==
  /\ pc[t] = "loop"
  /\ IF Top(t).idx > Len(Top(t).entries)
       THEN /\ pc' = [pc EXCEPT ![t] = "wait"]
            /\ UNCHANGED << stack, progress, sawCancel >>
       ELSE IF cancelled
         THEN /\ pc' = [pc EXCEPT ![t] = "wait"]
              /\ sawCancel' = sawCancel \cup {t}
              /\ UNCHANGED << stack, progress >>
         ELSE IF isICloudPlaceholder(Name(Entry(t)))
           THEN /\ progress' = [progress EXCEPT !.icloud = @ + 1]
                /\ stack' = [stack EXCEPT ![t] = NextEntry(@)]
                /\ UNCHANGED << pc, sawCancel >>
           ELSE /\ pc' = [pc EXCEPT ![t] = "visit"]
                /\ UNCHANGED << stack, progress, sawCancel >>
  /\ UNCHANGED << ui, config, scanPc, result, cancelled, root, startDeviceID, tree,
                  workerSem, abandoned, clock, progressChan, chanClosed,
                  skippedVolumes, seenInodes, consumer >>

\* s.updateProgress(fullPath, progressChan)
ParVisit(t) ==
  /\ pc[t] = "visit"
  /\ updateProgress(Entry(t))
  /\ pc' = [pc EXCEPT ![t] = "classify"]
  /\ UNCHANGED << ui, config, scanPc, result, cancelled, root, startDeviceID, tree,
                  stack, workerSem, abandoned, chanClosed, skippedVolumes,
                  seenInodes, consumer, sawCancel >>

\* the answer of ShouldSkipPath is not looked at
ClassifySkipUnchecked(e) ==
  IF StatFails(e) THEN "staterr"
  ELSE IF ~IsDir(e) THEN "file"
  ELSE IF hasSeenInode(seenInodes, Dev(e), Ino(e)) THEN "alias"
  ELSE "newdir"

\* the outcome of entry.Info() is not looked at
ClassifyStatUnchecked(e) ==
  IF ShouldSkipPath(skipNetwork, e) THEN "network"
  ELSE IF ~IsDir(e) THEN "file"
  ELSE IF hasSeenInode(seenInodes, Dev(e), Ino(e)) THEN "alias"
  ELSE "newdir"

\* what the checks between updateProgress and markInodeSeen decide for entry e
Classify(e) ==
  IF ShouldSkipPath(skipNetwork, e) THEN "network"
  ELSE IF StatFails(e) THEN "staterr"
  ELSE IF ~IsDir(e) THEN "file"
  ELSE IF hasSeenInode(seenInodes, Dev(e), Ino(e)) THEN "alias"
  ELSE "newdir"

\* the network check, entry.Info() and hasSeenInode; a file is attached
ParClassify(t) ==
  /\ pc[t] = "classify"
  /\ LET e == Entry(t)
         c == Classify(e) IN
       /\ skippedVolumes' =
            IF c = "network" THEN Append(skippedVolumes, [path |-> e, reason |-> SkipReason(e)])
            ELSE IF c = "alias"
              THEN Append(skippedVolumes, [path |-> e, reason |-> "alias/firmlink"])
              ELSE skippedVolumes
       /\ progress' = IF c = "staterr" THEN recordError(progress, e, "stat")
                      ELSE progress
       /\ IF c = "file" THEN AddChild(Top(t).node, e) ELSE UNCHANGED tree
       /\ IF c = "newdir"
            THEN pc' = [pc EXCEPT ![t] = "mark"] /\ UNCHANGED stack
            ELSE /\ pc' = [pc EXCEPT ![t] = "loop"]
                 /\ stack' = [stack EXCEPT ![t] = NextEntry(@)]
  /\ UNCHANGED << ui, config, scanPc, result, cancelled, root, startDeviceID,
                  workerSem, abandoned, clock, progressChan, chanClosed,
                  seenInodes, consumer, sawCancel >>

\* markInodeSeen, the filesystem-boundary check, AddChild and the goroutine
\* that scans the child directory
ParMark(t) ==
  /\ pc[t] = "mark"
  /\ LET e == Entry(t) IN
       /\ seenInodes' = markInodeSeen(seenInodes, Dev(e), Ino(e))
       /\ IF shouldSkipFilesystemBoundary(e)
            THEN /\ skippedVolumes' = Append(skippedVolumes,
                       [path |-> e, reason |-> "different filesystem"])
                 /\ pc' = [pc EXCEPT ![t] = "loop"]
                 /\ stack' = [stack EXCEPT ![t] = NextEntry(@)]
                 /\ UNCHANGED tree
            ELSE /\ AddChild(Top(t).node, e)
                 /\ pc' = [pc EXCEPT ![t] = "loop", ![e] = "start"]
                 /\ stack' = [stack EXCEPT
                      ![t] = NextEntry(@),
                      ![e] = << Frame(e, Top(t).depth + 1, TRUE) >>]
                 /\ UNCHANGED skippedVolumes
  /\ UNCHANGED << ui, config, scanPc, result, cancelled, root, startDeviceID,
                  workerSem, abandoned, progress, clock, progressChan, chanClosed,
                  consumer, sawCancel >>

\* the goroutines task t has started: one per attached child directory
Spawned(t) == { c \in Tasks : parent[c] = t /\ pc[c] # "idle" }

\* scanDirectoryParallel returns without wg.Wait()
ParWaitSkipped(t) ==
  /\ pc[t] = "wait"
  /\ pc' = [pc EXCEPT ![t] = "done"]
  /\ UNCHANGED << ui, config, scanPc, result, cancelled, root, startDeviceID, tree,
                  stack, workerSem, abandoned, progress, clock, progressChan,
                  chanClosed, skippedVolumes, seenInodes, consumer, sawCancel >>

\* wg.Wait(), then scanDirectoryParallel returns
ParWait(t) ==
  /\ pc[t] = "wait"
  /\ \A c \in Spawned(t) : pc[c] = "done"
  /\ pc' = [pc EXCEPT ![t] = "done"]
  /\ UNCHANGED << ui, config, scanPc, result, cancelled, root, startDeviceID, tree,
                  stack, workerSem, abandoned, progress, clock, progressChan,
                  chanClosed, skippedVolumes, seenInodes, consumer, sawCancel >>

(***************************************************************************)
(* scanDirectorySequential, on the call stack of task t.                   *)
(***************************************************************************)
\* the cancellation check before starting; the reader goroutine of
\* readDirWithTimeout starts without a semaphore token
SeqStart(t) ==
  /\ pc[t] = "seqStart"
  /\ IF cancelled
       THEN /\ pc' = [pc EXCEPT ![t] = PcAfterReturn(stack[t])]
            /\ stack' = [stack EXCEPT ![t] = AfterReturn(@)]
            /\ sawCancel' = sawCancel \cup {t}
       ELSE /\ pc' = [pc EXCEPT ![t] = "seqListing"]
            /\ UNCHANGED << stack, sawCancel >>
  /\ UNCHANGED << ui, config, scanPc, result, cancelled, root, startDeviceID, tree,
                  workerSem, abandoned, progress, clock, progressChan, chanClosed,
                  skippedVolumes, seenInodes, consumer >>

\* readDirWithTimeout returns and the error of the listing is recorded
SeqListing(t) ==
  /\ pc[t] = "seqListing"
  /\ \E o \in Outcomes(fs, Top(t).node) : \E r \in readDirWithTimeout(o) :
       /\ stack' = [stack EXCEPT ![t] = ListingReturns(@, r)]
       /\ abandoned' = IF o = "hang" THEN abandoned + 1 ELSE abandoned
       /\ progress' = IF r = "ok" THEN progress
                      ELSE recordError(progress, Top(t).node, r)
  /\ pc' = [pc EXCEPT ![t] = "seqLoop"]
  /\ UNCHANGED << ui, config, scanPc, result, cancelled, root, startDeviceID, tree,
                  workerSem, clock, progressChan, chanClosed, skippedVolumes,
                  seenInodes, consumer, sawCancel >>

\* top of the entry loop: the loop ends (return), or the cancellation check
\* fires (return), or a placeholder is counted and skipped, or the entry is
\* visited
SeqLoop(t) ==
  /\ pc[t] = "seqLoop"
  /\ IF Top(t).idx > Len(Top(t).entries)
       THEN /\ pc' = [pc EXCEPT ![t] = PcAfterReturn(stack[t])]
            /\ stack' = [stack EXCEPT ![t] = AfterReturn(@)]
            /\ UNCHANGED << progress, sawCancel >>
       ELSE IF cancelled
         THEN /\ pc' = [pc EXCEPT ![t] = PcAfterReturn(stack[t])]
              /\ stack' = [stack EXCEPT ![t] = AfterReturn(@)]
              /\ sawCancel' = sawCancel \cup {t}
              /\ UNCHANGED progress
         ELSE IF isICloudPlaceholder(Name(Entry(t)))
           THEN /\ progress' = [progress EXCEPT !.icloud = @ + 1]
                /\ stack' = [stack EXCEPT ![t] = NextEntry(@)]
                /\ UNCHANGED << pc, sawCancel >>
           ELSE /\ pc' = [pc EXCEPT ![t] = "seqVisit"]
                /\ UNCHANGED << stack, progress, sawCancel >>
  /\ UNCHANGED << ui, config, scanPc, result, cancelled, root, startDeviceID, tree,
                  workerSem, abandoned, clock, progressChan, chanClosed,
                  skippedVolumes, seenInodes, consumer >>

\* s.updateProgress(fullPath, progressChan)
SeqVisit(t) ==
  /\ pc[t] = "seqVisit"
  /\ updateProgress(Entry(t))
  /\ pc' = [pc EXCEPT ![t] = "seqClassify"]
  /\ UNCHANGED << ui, config, scanPc, result, cancelled, root, startDeviceID, tree,
                  stack, workerSem, abandoned, chanClosed, skippedVolumes,
                  seenInodes, consumer, sawCancel >>

\* the network check, entry.Info() and hasSeenInode; a file is attached
SeqClassify(t) ==
  /\ pc[t] = "seqClassify"
  /\ LET e == Entry(t)
         c == Classify(e) IN
       /\ skippedVolumes' =
            IF c = "network" THEN Append(skippedVolumes, [path |-> e, reason |-> SkipReason(e)])
            ELSE IF c = "alias"
              THEN Append(skippedVolumes, [path |-> e, reason |-> "alias/firmlink"])
              ELSE skippedVolumes
       /\ progress' = IF c = "staterr" THEN recordError(progress, e, "stat")
                      ELSE progress
       /\ IF c = "file" THEN AddChild(Top(t).node, e) ELSE UNCHANGED tree
       /\ IF c = "newdir"
            THEN pc' = [pc EXCEPT ![t] = "seqMark"] /\ UNCHANGED stack
            ELSE /\ pc' = [pc EXCEPT ![t] = "seqLoop"]
                 /\ stack' = [stack EXCEPT ![t] = NextEntry(@)]
  /\ UNCHANGED << ui, config, scanPc, result, cancelled, root, startDeviceID,
                  workerSem, abandoned, clock, progressChan, chanClosed,
                  seenInodes, consumer, sawCancel >>

\* markInodeSeen, the filesystem-boundary check, AddChild and the recursive
\* call on the child directory
SeqMark(t) ==
  /\ pc[t] = "seqMark"
  /\ LET e == Entry(t) IN
       /\ seenInodes' = markInodeSeen(seenInodes, Dev(e), Ino(e))
       /\ IF shouldSkipFilesystemBoundary(e)
            THEN /\ skippedVolumes' = Append(skippedVolumes,
                       [path |-> e, reason |-> "different filesystem"])
                 /\ pc' = [pc EXCEPT ![t] = "seqLoop"]
                 /\ stack' = [stack EXCEPT ![t] = NextEntry(@)]
                 /\ UNCHANGED tree
            ELSE /\ AddChild(Top(t).node, e)
                 /\ pc' = [pc EXCEPT ![t] = "seqStart"]
                 /\ stack' = [stack EXCEPT
                      ![t] = Append(@, Frame(e, Top(t).depth + 1, FALSE))]
                 /\ UNCHANGED skippedVolumes
  /\ UNCHANGED << ui, config, scanPc, result, cancelled, root, startDeviceID,
                  workerSem, abandoned, progress, clock, progressChan, chanClosed,
                  consumer, sawCancel >>

(***************************************************************************)
(* The environment.                                                        *)
(***************************************************************************)
\* the reader goroutine of a timed-out readDirWithTimeout: os.ReadDir returns
\* at last, the result goes into the buffered resultChan, the goroutine ends;
\* nobody receives from that channel any more, so the send completes only
\* into a free buffer slot, and the channel is empty
ReaderReturns ==
  /\ abandoned > 0
  /\ 0 < ResultChanCap
  /\ abandoned' = abandoned - 1
  /\ UNCHANGED << ui, config, scanPc, result, cancelled, root, startDeviceID, tree,
                  pc, stack, workerSem, progress, clock, progressChan, chanClosed,
                  skippedVolumes, seenInodes, consumer, sawCancel >>

\* cancel() of the context handed to Scan; runTUI calls it when p.Run has
\* returned
Cancel ==
  /\ ~cancelled
  /\ scanPc # "returned"
  /\ UnderTUI => quit
  /\ cancelled' = TRUE
  /\ UNCHANGED << ui, config, scanPc, result, root, startDeviceID, tree, pc, stack,
                  workerSem, abandoned, progress, clock, progressChan, chanClosed,
                  skippedVolumes, seenInodes, consumer, sawCancel >>

\* the forwarder of runTUI: one iteration of "for progress := range
\* progressChan" takes a snapshot; under the UI it then has to hand it to
\* p.Send before the next iteration
Receive ==
  /\ ~consumerDone
  /\ ~fwdPending
  /\ Len(progressChan) > 0
  /\ delivered' = << Head(progressChan) >>
  /\ progressChan' = Tail(progressChan)
  /\ fwdPending' = UnderTUI
  /\ UNCHANGED << tlv, prev, m, quit, filesToDelete, config, scanPc, result, cancelled, root, startDeviceID, tree,
                  pc, stack, workerSem, abandoned, progress, clock, chanClosed,
                  skippedVolumes, seenInodes, consumerDone, sawCancel >>

\* the range loop ends: the channel is closed and drained
ObserveClosed ==
  /\ ~consumerDone
  /\ ~fwdPending
  /\ Len(progressChan) = 0
  /\ chanClosed
  /\ consumerDone' = TRUE
  /\ UNCHANGED << ui, config, scanPc, result, cancelled, root, startDeviceID, tree,
                  pc, stack, workerSem, abandoned, progress, clock, progressChan,
                  chanClosed, skippedVolumes, seenInodes, delivered, sawCancel >>

(***************************************************************************)
(* The terminal UI: runTUI and ui.Model.                                   *)
(***************************************************************************)
RECURSIVE VisibleItems(_, _)
RECURSIVE removeNodeRecursive(_, _, _, _)
RECURSIVE removeNodes(_, _, _)

\* the items TreeView can show for root r: r and, below every expanded
\* directory, its children (buildVisibleItemsRecursive), every directory
\* taken as expandable
VisibleItems(ch, r) ==
  { r } \cup UNION { VisibleItems(ch, ch[r][i]) : i \in DOMAIN ch[r] }

\* Protector.RequiresConfirmation: the path is a sensitive path or lies
\* below one
RequiresConfirmation(p) ==
  \E sp \in SensitivePaths : p = sp \/ Under(p, sp)

\* "hasSensitive" of handleModalInput
hasSensitive(marked) == \E p \in marked : RequiresConfirmation(p)

\* the slice is cut at the child: its later siblings are dropped with it
removeNodeRecursiveTruncating(ch, par, target, i) ==
  IF i > Len(ch[par]) THEN [found |-> FALSE, ch |-> ch]
  ELSE IF ch[par][i] = target
    THEN [found |-> TRUE, ch |-> [ch EXCEPT ![par] = SubSeq(@, 1, i - 1)]]
    ELSE LET below == removeNodeRecursive(ch, ch[par][i], target, 1) IN
           IF below.found THEN below
           ELSE removeNodeRecursive(ch, par, target, i + 1)

\* Model.removeNodeRecursive from child i of node par on: the first child
\* with the target path is cut out of the list of its parent
removeNodeRecursive(ch, par, target, i) ==
  IF i > Len(ch[par]) THEN [found |-> FALSE, ch |-> ch]
  ELSE IF ch[par][i] = target
    THEN [found |-> TRUE,
          ch |-> [ch EXCEPT ![par] =
                    SubSeq(@, 1, i - 1) \o SubSeq(@, i + 1, Len(@))]]
    ELSE LET below == removeNodeRecursive(ch, ch[par][i], target, 1) IN
           IF below.found THEN below
           ELSE removeNodeRecursive(ch, par, target, i + 1)

\* Model.removeNodeFromTree on the tree st = [root, ch]
removeNodeFromTree(st, target) ==
  IF st.root = NULL THEN st
  ELSE IF st.root = target THEN [st EXCEPT !.root = NULL]
  ELSE [st EXCEPT !.ch = removeNodeRecursive(st.ch, st.root, target, 1).ch]

\* "for _, path := range msg.DeletedPaths { m.removeNodeFromTree(path) }"
removeNodes(st, deleted, i) ==
  IF i > Len(deleted) THEN st
  ELSE removeNodes(removeNodeFromTree(st, deleted[i]), deleted, i + 1)

\* the orders in which a map with key set S can be iterated
Orders(S) == { q \in [1..Cardinality(S) -> S] : { q[i] : i \in DOMAIN q } = S }

\* the scan goroutine of runTUI can send ScanCompleteMsg: Scan has returned
CompleteReadyEarly == UnderTUI /\ scanPc # "init"
CompleteReady == UnderTUI /\ scanPc = "returned"

\* the forwarder's p.Send(ScanProgressMsg) and Update's case for it; Send is
\* a no-op once the program has quit
UIProgress ==
  /\ fwdPending
  /\ fwdPending' = FALSE
  /\ m' = IF quit THEN m ELSE [m EXCEPT !.progress = delivered[1]]
  /\ UNCHANGED << tlv, prev, quit, filesToDelete, config, scanPc, result, cancelled, root,
                  startDeviceID, tree, pc, stack, workerSem, abandoned, progress,
                  clock, progressChan, chanClosed, skippedVolumes, seenInodes,
                  consumer, sawCancel >>

\* p.Send(ScanCompleteMsg{Root, Err, SkippedVolumes}) after Scan has
\* returned, and Update's case for it
UIScanComplete ==
  /\ CompleteReady
  /\ ~quit
  /\ m.scanning
  /\ m' = [m EXCEPT
       !.scanning = FALSE,
       !.root = retRoot,
       !.err = retErr,
       !.skippedVolumes = skippedVolumes,
       !.visible = IF retRoot # NULL THEN VisibleItems(children, retRoot) ELSE @,
       !.errorsView = << m.progress.nerr >>]
  /\ UNCHANGED << tlv, prev, fwdPending, quit, filesToDelete, config, scanPc, result,
                  cancelled, root, startDeviceID, tree, pc, stack, workerSem,
                  abandoned, progress, clock, progressChan, chanClosed,
                  skippedVolumes, seenInodes, consumer, sawCancel >>

\* Model.toggleMarkCurrentFile for the selected node
toggleMark(marked, sel) ==
  IF sel = NULL THEN marked
  ELSE IF sel \in marked THEN marked \ { sel } ELSE marked \cup { sel }

\* key "m" outside a dialog, the cursor on no item or on a visible item
KeyMark ==
  /\ UnderTUI /\ ~quit
  /\ m.activeModal = "none"
  /\ \E sel \in m.visible \cup { NULL } :
       m' = IF ~m.scanning
              THEN [m EXCEPT !.markedFiles = toggleMark(@, sel)]
              ELSE m
  /\ UNCHANGED << tlv, prev, fwdPending, quit, filesToDelete, config, scanPc, result,
                  cancelled, root, startDeviceID, tree, pc, stack, workerSem,
                  abandoned, progress, clock, progressChan, chanClosed,
                  skippedVolumes, seenInodes, consumer, sawCancel >>

\* key "x" outside a dialog
KeyDelete ==
  /\ UnderTUI /\ ~quit
  /\ m.activeModal = "none"
  /\ m' = IF ~m.scanning /\ m.markedFiles # {}
            THEN [m EXCEPT !.activeModal = "confirm"]
            ELSE m
  /\ UNCHANGED << tlv, prev, fwdPending, quit, filesToDelete, config, scanPc, result,
                  cancelled, root, startDeviceID, tree, pc, stack, workerSem,
                  abandoned, progress, clock, progressChan, chanClosed,
                  skippedVolumes, seenInodes, consumer, sawCancel >>

\* the test before the second confirmation is left out
NeedsSecondConfirmationNever(model) == FALSE

\* "hasSensitive && !m.sensitiveDeleteConfirmed"
NeedsSecondConfirmation(model) ==
  hasSensitive(model.markedFiles) /\ ~model.sensitiveDeleteConfirmed

\* key "y", "Y" or "enter" in the confirmation dialog (handleModalInput);
\* the last confirmation calls startDeletion, which copies the marked set
KeyConfirm ==
  /\ UnderTUI /\ ~quit
  /\ m.activeModal = "confirm"
  /\ IF NeedsSecondConfirmation(m)
       THEN /\ m' = [m EXCEPT !.sensitiveDeleteConfirmed = TRUE]
            /\ UNCHANGED filesToDelete
       ELSE /\ m' = [m EXCEPT !.activeModal = "progress",
                              !.sensitiveDeleteConfirmed = FALSE]
            /\ filesToDelete' = << m.markedFiles >>
  /\ UNCHANGED << tlv, prev, fwdPending, quit, config, scanPc, result, cancelled, root,
                  startDeviceID, tree, pc, stack, workerSem, abandoned, progress,
                  clock, progressChan, chanClosed, skippedVolumes, seenInodes,
                  consumer, sawCancel >>

\* key "n", "N", "esc" or "q" in the confirmation dialog
KeyCancel ==
  /\ UnderTUI /\ ~quit
  /\ m.activeModal = "confirm"
  /\ m' = [m EXCEPT !.activeModal = "none", !.sensitiveDeleteConfirmed = FALSE]
  /\ UNCHANGED << tlv, prev, fwdPending, quit, filesToDelete, config, scanPc, result,
                  cancelled, root, startDeviceID, tree, pc, stack, workerSem,
                  abandoned, progress, clock, progressChan, chanClosed,
                  skippedVolumes, seenInodes, consumer, sawCancel >>

\* the command of startDeletion has run DeleteFile for every path, each call
\* succeeding or failing, and Update handles its DeleteCompleteMsg
UIDeleteComplete ==
  /\ UnderTUI /\ ~quit
  /\ filesToDelete # << >>
  /\ \E done \in SUBSET filesToDelete[1] : \E DeletedPaths \in Orders(done) :
       LET st == removeNodes([root |-> m.root, ch |-> children], DeletedPaths, 1) IN
         /\ children' = st.ch
         /\ m' = [m EXCEPT
              !.root = st.root,
              !.visible = IF st.root # NULL THEN VisibleItems(st.ch, st.root) ELSE @,
              !.markedFiles = IF st.root # NULL THEN @ \ done ELSE @,
              !.activeModal = "summary"]
  /\ filesToDelete' = << >>
  /\ UNCHANGED << tlv, prev, fwdPending, quit, config, scanPc, result, cancelled, root,
                  startDeviceID, parent, pc, stack, workerSem, abandoned,
                  progress, clock, progressChan, chanClosed, skippedVolumes,
                  seenInodes, consumer, sawCancel >>

\* any key in the summary dialog
KeySummary ==
  /\ UnderTUI /\ ~quit
  /\ m.activeModal = "summary"
  /\ m' = [m EXCEPT !.activeModal = "none", !.markedFiles = {}]
  /\ UNCHANGED << tlv, prev, fwdPending, quit, filesToDelete, config, scanPc, result,
                  cancelled, root, startDeviceID, tree, pc, stack, workerSem,
                  abandoned, progress, clock, progressChan, chanClosed,
                  skippedVolumes, seenInodes, consumer, sawCancel >>

\* key "q" or "ctrl+c" outside a dialog: tea.Quit, p.Run returns
KeyQuit ==
  /\ UnderTUI /\ ~quit
  /\ m.activeModal = "none"
  /\ quit' = TRUE
  /\ UNCHANGED << tlv, prev, m, fwdPending, filesToDelete, config, scanPc, result,
                  cancelled, root, startDeviceID, tree, pc, stack, workerSem,
                  abandoned, progress, clock, progressChan, chanClosed,
                  skippedVolumes, seenInodes, consumer, sawCancel >>

UIStep ==
  \/ UIProgress \/ UIScanComplete \/ UIDeleteComplete
  \/ KeyMark \/ KeyDelete \/ KeyConfirm \/ KeyCancel \/ KeySummary \/ KeyQuit

TaskStep(t) ==
  \/ ParStart(t) \/ ParAcquire(t) \/ ParListing(t) \/ ParRelease(t)
  \/ ParLoop(t) \/ ParVisit(t) \/ ParClassify(t) \/ ParMark(t) \/ ParWait(t)
  \/ SeqStart(t) \/ SeqListing(t) \/ SeqLoop(t) \/ SeqVisit(t)
  \/ SeqClassify(t) \/ SeqMark(t)

ScanStep == ScanBegin \/ ScanCheck \/ ScanFinalSend \/ ScanClose \/ ScanReturn

Next ==
  \/ ScanStep
  \/ \E t \in Tasks : TaskStep(t)
  \/ ReaderReturns
  \/ Cancel
  \/ Receive
  \/ ObserveClosed
  \/ UIStep

Spec == Init /\ [][Next]_vars

(***************************************************************************)
(* Properties.                                                             *)
(***************************************************************************)
Live == { t \in Tasks : pc[t] \notin { "idle", "done" } }

GateFull == Cardinality(workerSem) >= GateCap

\* task t cannot move: it waits for a gate slot or for its children
Blocked(t) ==
  \/ pc[t] = "acquire" /\ GateFull
  \/ pc[t] = "wait" /\ \E c \in Spawned(t) : pc[c] # "done"

ScannerStep == ScanStep \/ \E t \in Tasks : TaskStep(t)

\* C1: Scan always returns: in no reachable state are all live traversal
\* tasks blocked on the gate or on their children, and until Scan has
\* returned the scanner itself (not its environment) can take a step; every
\* step moves a task or Scan forward, so the scan ends.
C1_NoDeadlock ==
  /\ Live # {} => \E t \in Live : ~Blocked(t)
  /\ scanPc # "returned" => ENABLED ScannerStep

\* a task waits for a gate slot that the tree's other directories occupy
C1_Witness ==
  \E t \in Tasks : pc[t] = "acquire" /\ GateFull /\ ~cancelled

\* C2: a task holds a gate slot only between acquiring it and the return of
\* its listing call: never in the entry loop, while spawning a child, while
\* waiting for its children or in the sequential traversal.
C2_ReleaseBeforeRecurse ==
  \A t \in Tasks : t \in workerSem => pc[t] \in { "listing", "release" }

\* a parent waits for a child that holds a slot, holding none itself
C2_Witness ==
  \E t \in Tasks :
    /\ pc[t] = "wait"
    /\ t \notin workerSem
    /\ \E c \in Spawned(t) : pc[c] = "listing" /\ c \in workerSem

\* directory entries the scan has descended into
Descended == { p \in Paths : IsDir(p) /\ parent[p] # NULL }

SameInode(p, q) == Dev(p) = Dev(q) /\ Ino(p) = Ino(q)

\* C3: for each (device, inode) at most one directory entry carrying the
\* pair is descended into (every other one is skipped as "alias/firmlink"
\* instead of being attached and scanned).
C3_DedupAtomic ==
  \A p, q \in Descended : SameInode(p, q) => p = q

\* os.ReadDir calls that have not returned yet: those a task waits for and
\* those left behind by a timeout
InFlight ==
  Cardinality({ t \in Tasks : pc[t] \in { "listing", "seqListing" } }) + abandoned

\* C4: the number of directory-listing calls in flight never exceeds the
\* gate capacity, at any depth.
C4_InFlightBounded == InFlight <= GateCap

\* the child lists only grow, and no node changes its parent
TreeKept ==
  /\ \A n \in Paths : \A i \in DOMAIN children[n] :
       i \in DOMAIN children'[n] /\ children'[n][i] = children[n][i]
  /\ \A n \in Paths : parent[n] # NULL => parent'[n] = parent[n]

\* C5: when the context is cancelled during the traversal, Scan leaves the
\* traversal by returning the non-nil root with Complete = false, and no
\* step of the scan removes an attached node (a node leaves a child list
\* only when the UI handles the result of a deletion command).
C5_CancelKeepsPartialTree ==
  [][/\ (filesToDelete = << >> => TreeKept)
     /\ (scanPc = "traverse" /\ cancelled /\ scanPc' # "traverse") =>
          /\ scanPc' = "returned"
          /\ retRoot' = Root
          /\ retRoot' # NULL
          /\ ~progress'.complete
          /\ \A n \in Paths : parent[n] # NULL =>
               \E i \in DOMAIN children'[parent[n]] : children'[parent[n]][i] = n
    ]_vars

\* a cancelled scan has returned a tree that holds some but not all entries
C5_Witness ==
  /\ scanPc = "returned"
  /\ retErr = "ctx"
  /\ Len(children[Root]) > 0
  /\ \E d \in Descended : Len(children[d]) < Len(Listing(fs, d))

\* C6: when Scan has returned and a channel was given, the channel is closed.
C6_ChannelClosedAtReturn ==
  (scanPc = "returned" /\ chanGiven) => chanClosed

\* C7: when the consumer sees the channel closed, the snapshot it received
\* last is the final one, with complete = true.
C7_FinalSnapshotDelivered ==
  consumerDone => (delivered # << >> /\ delivered[1].complete)

\* C8: once a task has observed the cancellation, no snapshot is put on the
\* channel by any step of the scan.
C8_NoSendAfterCancelObserved ==
  [][sawCancel # {} => Len(progressChan') <= Len(progressChan)]_vars

\* a task or Scan stands before a send, or the consumer has taken nothing
\* from a full buffer: the scanner can still take its step
SendsEnabled ==
  /\ \A t \in Tasks : pc[t] = "visit" => ENABLED ParVisit(t)
  /\ \A t \in Tasks : pc[t] = "seqVisit" => ENABLED SeqVisit(t)
  /\ scanPc = "final" => ENABLED ScanFinalSend
  /\ (scanPc # "returned" /\ delivered = << >> /\ Len(progressChan) = ChanCap)
       => ENABLED ScannerStep

\* C9: every step that sends is enabled whatever the channel holds, so the
\* scanner can go on until Scan returns although the consumer receives
\* nothing; and a step taken on a full buffer adds nothing to it (the new
\* snapshot is dropped).
C9_SendNeverBlocks ==
  /\ []SendsEnabled
  /\ [][Len(progressChan) = ChanCap =>
          (progressChan' = progressChan \/ progressChan' = Tail(progressChan))]_vars

\* a scan has completed although the consumer never received anything and
\* the final snapshot found the buffer full
C9_Witness ==
  /\ scanPc = "returned"
  /\ retErr = "none"
  /\ chanGiven
  /\ delivered = << >>
  /\ Len(progressChan) = ChanCap
  /\ ~progressChan[Len(progressChan)].complete

Mono(a, b) == a.files <= b.files /\ a.bytes <= b.bytes

\* C10: files and bytes never decrease along the channel: not between two
\* buffered snapshots, and not from the snapshot received last to the next.
C10_ProgressMonotone ==
  /\ \A i \in 1 .. Len(progressChan) - 1 : Mono(progressChan[i], progressChan[i + 1])
  /\ (delivered # << >> /\ Len(progressChan) > 0) => Mono(delivered[1], progressChan[1])

\* two tasks have flushed one after the other
C10_Witness ==
  /\ delivered # << >>
  /\ Len(progressChan) > 0
  /\ delivered[1].path = "/r/a/f"
  /\ progressChan[1].path = "/r/b/g"
  /\ delivered[1].files < progressChan[1].files

(***************************************************************************)
(* Failure isolation.                                                      *)
(***************************************************************************)
\* the node is part of the tree Scan builds
InTree(p) == p = root \/ parent[p] # NULL

\* the positions of c in the child list of n
Places(n, c) == { i \in 1..Len(children[n]) : children[n][i] = c }

\* the tree is as the scan built it: no node has been cut out of the child
\* list of its parent (the UI's removeNodeRecursive leaves child.Parent set)
Untouched == \A c \in Paths : parent[c] # NULL => Places(parent[c], c) # {}

\* the records of the error list for path p with cause kind
ErrorsOf(p, kind) ==
  { i \in DOMAIN progress.errors :
      progress.errors[i] = [path |-> p, kind |-> kind] }

\* the scan ran to its end: Scan returned s.root, nil
Completed == scanPc = "returned" /\ retErr = "none"

\* the directories the listing of d's parent returned beside d
SiblingDirs(d) ==
  { e \in Tasks : e # d /\ \E i \in DOMAIN Listing(fs, parent[d]) :
                               Listing(fs, parent[d])[i] = e }

\* C11: when the scan has completed, a directory whose listing timed out
\* has exactly one timeout error in the error list, at whatever depth it
\* lies, and the directories listed beside it are nodes of the tree.
C11_OneTimeoutErrorPerDirectory ==
  Completed =>
    \A d \in Tasks : ErrorsOf(d, "timeout") # {} =>
      /\ Cardinality(ErrorsOf(d, "timeout")) = 1
      /\ InTree(d) /\ d # Root => \A e \in SiblingDirs(d) : InTree(e)

\* some listing call on directory d has failed or timed out
ListingFailed(d) == ErrorsOf(d, "err") # {} \/ ErrorsOf(d, "timeout") # {}

\* C12: when the scan has completed, a directory with a recorded listing
\* failure is a node of the tree without children, and every directory
\* listed beside it is a node of the tree as well.
C12_FailedListingIsolated ==
  Completed =>
    \A d \in Tasks : ListingFailed(d) =>
      /\ InTree(d)
      /\ children[d] = << >>
      /\ d # Root => \A e \in SiblingDirs(d) : InTree(e)

\* the elements of a sequence
Range(q) == { q[i] : i \in DOMAIN q }

\* entry e was excluded: as a placeholder, or with a record in the skip list
Skipped(e) ==
  \/ isICloudPlaceholder(Name(e))
  \/ \E i \in DOMAIN skippedVolumes : skippedVolumes[i].path = e

\* the entries of d's listing whose stat fails
FailStat(d) == { e \in Range(Listing(fs, d)) : StatFails(e) }

\* the "cannot stat" records of the error list for entries of directory d
StatErrorsIn(d) ==
  { i \in DOMAIN progress.errors :
      /\ progress.errors[i].kind = "stat"
      /\ progress.errors[i].path \in Range(Listing(fs, d)) }

\* C13: when an uncancelled scan has completed (and as long as the UI has
\* removed nothing from its tree), every directory of the tree
\* whose listing returned N entries, none of them skipped, M of them failing
\* stat, has exactly N - M children, and the error list holds exactly M stat
\* errors for its entries; this holds for each directory beside it as well.
C13_StatFailuresCounted ==
  (Completed /\ ~cancelled /\ Untouched) =>
    \A d \in Tasks :
      (InTree(d) /\ ~ListingFailed(d) /\ \A e \in Range(Listing(fs, d)) : ~Skipped(e)) =>
        /\ Len(children[d]) = Len(Listing(fs, d)) - Cardinality(FailStat(d))
        /\ Cardinality(StatErrorsIn(d)) = Cardinality(FailStat(d))
        /\ \A e \in Range(Listing(fs, d)) :
             (e \in Range(children[d])) = (e \notin FailStat(d))

\* a scan has completed in which one directory lost one of its two entries
\* to a stat failure and a deeper one lost its only entry
C13_Witness ==
  /\ Completed /\ ~cancelled
  /\ fs = "stat"
  /\ children["/r/a"] = << "/r/a/f" >>
  /\ ErrorsOf("/r/a/gone", "stat") # {}
  /\ InTree("/r/b/y") /\ children["/r/b/y"] = << >>
  /\ ErrorsOf("/r/b/y/lost", "stat") # {}

(***************************************************************************)
(* Exclusions.                                                             *)
(***************************************************************************)
\* with one-filesystem enabled, p is on another device than the root
Foreign(p) ==
  oneFilesystem /\ scanPc # "init" /\ root # NULL /\ Dev(p) # startDeviceID

\* the reasons of the skip records of path p
ReasonsOf(p) ==
  { skippedVolumes[i].reason :
      i \in { j \in DOMAIN skippedVolumes : skippedVolumes[j].path = p } }

\* the entries the completed scan has come across: what the listings of the
\* directories of the tree returned
Listed ==
  UNION { Range(Listing(fs, d)) : d \in { t \in Tasks : InTree(t) /\ ~ListingFailed(t) } }

\* neither p nor anything below p is a node of the tree
KeptOut(p) == ~InTree(p) /\ \A q \in Paths : Under(q, p) => ~InTree(q)

\* p has a skip record, and one for the boundary unless it has another
SkippedAtBoundary(p) ==
  /\ ReasonsOf(p) # {}
  /\ ReasonsOf(p) \subseteq { "different filesystem", "alias/firmlink", SkipReason(p) }
  /\ (~ShouldSkipPath(skipNetwork, p) /\ "alias/firmlink" \notin ReasonsOf(p))
       => "different filesystem" \in ReasonsOf(p)

CancelledExit == scanPc = "traverse" /\ cancelled /\ scanPc' = "returned"

FailedExit == scanPc = "init" /\ scanPc' = "returned"

\* no traversal task exists and no listing call is running
NothingStarted ==
  /\ \A t \in Tasks : pc[t] = "idle" /\ stack[t] = << >>
  /\ workerSem = {}
  /\ InFlight = 0

\* C16: when the root cannot be stat'ed, Scan returns at once with the error
\* and without a tree; the step starts no listing and no task and leaves the
\* error list, the skip list and the dedup table as they were, and nothing
\* is started afterwards.
C16_RootFailureReturnsAtOnce ==
  /\ [][FailedExit =>
          /\ retErr' \in RootFailures
          /\ retRoot' = NULL
          /\ root' = NULL
          /\ NothingStarted'
          /\ UNCHANGED << progress, skippedVolumes, seenInodes, tree >>]_vars
  /\ []((scanPc = "returned" /\ retErr \in RootFailures) =>
          /\ NothingStarted
          /\ retRoot = NULL
          /\ progress.errors = << >>
          /\ skippedVolumes = << >>
          /\ seenInodes = {})

\* Scan has returned "cannot access path" for a root with a channel given
C16_Witness ==
  /\ scanPc = "returned"
  /\ retErr = "stat"
  /\ retRoot = NULL
  /\ chanGiven

\* the completed scan came across entry e and left it out of the tree,
\* although its stat did not fail
Excluded(e) == e \in Listed /\ ~InTree(e) /\ ~StatFails(e)

\* no record of the error list is about path e
NoErrorFor(e) == \A i \in DOMAIN progress.errors : progress.errors[i].path # e

\* e has its skip record, with the reason of the check that excluded it
ExclusionRecorded(e) ==
  /\ ReasonsOf(e) # {}
  /\ IF ShouldSkipPath(skipNetwork, e)
       THEN ReasonsOf(e) = { SkipReason(e) }
       ELSE ReasonsOf(e) \subseteq { "alias/firmlink", "different filesystem" }

\* a step that skips an entry leaves the error list alone
SkipAddsNoError ==
  (skippedVolumes' # skippedVolumes \/ progress'.icloud # progress.icloud)
    => progress'.errors = progress.errors

\* C17 as stated: when the uncancelled scan has completed, every excluded
\* entry, a placeholder file included, has a record with a reason in the
\* skip list and none in the error list.
C17_ExclusionsInSkipList ==
  (Completed /\ ~cancelled) =>
    \A e \in Paths : Excluded(e) => ReasonsOf(e) # {} /\ NoErrorFor(e)

\* C17 as amended: every entry excluded as a network/cloud volume, at the
\* filesystem boundary or as an alias duplicate has its record and reason in
\* the skip list; a placeholder file has none and is counted in
\* ICloudFilesSkipped instead; no exclusion adds to the error list.
C17_ExclusionsRecordedOrCounted ==
  /\ []((Completed /\ ~cancelled) =>
          /\ \A e \in Paths : Excluded(e) =>
               /\ NoErrorFor(e)
               /\ IF isICloudPlaceholder(Name(e))
                    THEN ReasonsOf(e) = {}
                    ELSE ExclusionRecorded(e)
          /\ progress.icloud =
               Cardinality({ e \in Listed : isICloudPlaceholder(Name(e)) }))
  /\ [][SkipAddsNoError]_vars

\* a completed scan has excluded a placeholder, a network share and a mount
\* point, and found no error but the one stat failure
C17_Witness ==
  /\ Completed /\ ~cancelled
  /\ Excluded("/r/.h.icloud") /\ progress.icloud = 1
  /\ Excluded("/r/net") /\ Excluded("/r/ext")
  /\ Len(skippedVolumes) = 2
  /\ Len(progress.errors) = 1

(***************************************************************************)
(* The shape of the tree.                                                  *)
(***************************************************************************)
\* the place of entry e in the listing of directory d (0: not listed)
Pos(d, e) ==
  IF e \in Range(Listing(fs, d))
    THEN CHOOSE i \in DOMAIN Listing(fs, d) : Listing(fs, d)[i] = e
    ELSE 0

\* the listing of d without the entries that are not children of d
Kept(d) == SelectSeq(Listing(fs, d), LAMBDA e : parent[e] = d)

\* C18: the children of every directory stand in the order of its listing,
\* at every moment and under every interleaving of the child tasks; when
\* the uncancelled scan has completed, the child list is the listing with
\* the skipped and failed entries left out (as long as the UI has removed
\* nothing from the tree).
C18_ChildrenInListingOrder ==
  /\ \A d \in Tasks : \A i, j \in DOMAIN children[d] :
       i < j => /\ Pos(d, children[d][i]) > 0
                /\ Pos(d, children[d][i]) < Pos(d, children[d][j])
  /\ (Completed /\ ~cancelled /\ Untouched) =>
       \A d \in Tasks : (InTree(d) /\ ~ListingFailed(d)) => children[d] = Kept(d)

\* the root has attached two directories in listing order, and the task of
\* the second has finished while the task of the first is still running
C18_Witness ==
  /\ fs = "pair"
  /\ children[Root] = << "/r/a", "/r/b" >>
  /\ pc["/r/b"] = "done"
  /\ pc["/r/a"] \in { "acquire", "listing", "loop", "visit" }
  /\ children["/r/b"] = << "/r/b/g" >>

(***************************************************************************)
(* The guarded directory read.                                             *)
(***************************************************************************)
\* task t is inside readDirWithTimeout
Reading(t) == pc[t] \in { "listing", "seqListing" }

\* the result readDirWithTimeout handed to task t
Result(t) == stack[t][Len(stack[t])].res

\* task t comes back from readDirWithTimeout: with the listing's result, or
\* with the timeout error, and with the latter exactly when it leaves the
\* call of os.ReadDir behind
ReadReturns(t) ==
  (Reading(t) /\ ~Reading(t)') =>
    /\ Result(t)' \in { "ok", "err", "timeout" }
    /\ (Result(t)' = "timeout") = (abandoned' = abandoned + 1)
    /\ (Result(t)' # "timeout") => abandoned' = abandoned

\* C19: a task inside readDirWithTimeout can always come back, also from a
\* directory on which os.ReadDir never returns, and it comes back with the
\* listing's result or with the timeout error; the reader left behind by a
\* timeout can always finish.
C19_ReadAlwaysReturns ==
  /\ [](\A t \in Tasks :
          /\ pc[t] = "listing" => ENABLED ParListing(t)
          /\ pc[t] = "seqListing" => ENABLED SeqListing(t))
  /\ [](abandoned > 0 => ENABLED ReaderReturns)
  /\ [][\A t \in Tasks : ReadReturns(t)]_vars

\* the task of the dead mount has got its timeout error from both of its
\* reads while the two calls of os.ReadDir are still hanging
C19_Witness ==
  /\ fs = "wide"
  /\ Cardinality(ErrorsOf("/r/a/z", "timeout")) = 2
  /\ abandoned >= 2
  /\ pc["/r/a/z"] = "done"

(***************************************************************************)
(* FileNode.TotalSize.                                                     *)
(***************************************************************************)
\* the value an integer of SizeBits bits holds after an addition (two's
\* complement, as Go's int64 wraps around)
Wrap(v) == ((v + 2 ^ (SizeBits - 1)) % 2 ^ SizeBits) - 2 ^ (SizeBits - 1)

RECURSIVE TotalSize(_)
RECURSIVE TotalFrom(_, _, _)

\* the loop of TotalSize: "for _, child := range n.Children { total += ... }"
TotalFrom(n, i, total) ==
  IF i > Len(children[n]) THEN total
  ELSE TotalFrom(n, i + 1, Wrap(total + TotalSize(children[n][i])))

\* FileNode.TotalSize
TotalSize(n) == IF ~IsDir(n) THEN Size(n) ELSE TotalFrom(n, 1, 0)

\* the sum of the numbers f[x] for x in set S
RECURSIVE Sum(_, _)
Sum(f, S) ==
  IF S = {} THEN 0
  ELSE LET x == CHOOSE y \in S : TRUE IN f[x] + Sum(f, S \ {x})

\* the sum of the TotalSize of the direct children of n
SumOfChildren(n) ==
  Sum([i \in DOMAIN children[n] |-> TotalSize(children[n][i])], DOMAIN children[n])

\* C20: for every node of every tree the scan builds, complete or partial,
\* a file's TotalSize is its size, a directory's TotalSize is the sum of the
\* TotalSize of its direct children, 0 when it has none, and no TotalSize is
\* negative (all sizes of the filesystem are non-negative).
C20_TotalSizeIsSumOfChildren ==
  \A n \in Paths : InTree(n) =>
    /\ ~IsDir(n) => TotalSize(n) = Size(n)
    /\ IsDir(n) => TotalSize(n) = SumOfChildren(n)
    /\ (IsDir(n) /\ children[n] = << >>) => TotalSize(n) = 0
    /\ TotalSize(n) >= 0

(***************************************************************************)
(* The tree of a healthy scan.                                             *)
(***************************************************************************)
RECURSIVE FileCount(_)
RECURSIVE CountFrom(_, _, _)

\* the loop of FileCount: "for _, child := range n.Children { count += ... }"
CountFrom(n, i, count) ==
  IF i > Len(children[n]) THEN count
  ELSE CountFrom(n, i + 1, count + FileCount(children[n][i]))

\* FileNode.FileCount
FileCount(n) == IF ~IsDir(n) THEN 1 ELSE CountFrom(n, 1, 0)

\* the nodes of the tree below the root: files, directories
FileNodes == { p \in Paths : p # Root /\ InTree(p) /\ ~IsDir(p) }
DirNodes == { p \in Paths : p # Root /\ InTree(p) /\ IsDir(p) }

\* the snapshots that stand in the buffer or were received last
Snapshots == Range(progressChan) \cup Range(delivered)

\* C21: the uncancelled scan of /r{f of 10 bytes, b{h of 20 bytes}} ends
\* with a root TotalSize of 30, two file nodes, one subdirectory node, no
\* error and no skip record, and the final snapshot (the one the final send
\* offers, and every complete snapshot in the channel) counts 2 or 3
\* visited entries.
C21_SampleTree ==
  /\ (fs = "sample" /\ ~cancelled /\ (scanPc \in { "final", "close", "return" } \/ Completed)) =>
       /\ TotalSize(Root) = 30
       /\ Cardinality(FileNodes) = 2 /\ FileCount(Root) = 2
       /\ Cardinality(DirNodes) = 1
       /\ progress.errors = << >>
       /\ skippedVolumes = << >>
       /\ progress.complete
       /\ Snapshot(progress).files \in { 2, 3 }
  /\ fs = "sample" =>
       \A sn \in Snapshots : sn.complete => sn.files \in { 2, 3 }

\* the consumer has received the final snapshot of the sample tree
C21_Witness ==
  /\ fs = "sample"
  /\ Completed /\ ~cancelled
  /\ consumerDone
  /\ delivered # << >> /\ delivered[1].complete /\ delivered[1].files = 3
  /\ children[Root] = << "/r/f", "/r/b" >>

(***************************************************************************)
(* The shape of the tree.                                                  *)
(***************************************************************************)
\* C22: in every state a node that is not a directory has no children, and
\* the child list of a node never holds the same path twice.
C22_FilesAreLeavesChildrenDistinct ==
  /\ \A p \in Paths : ~IsDir(p) => children[p] = << >>
  /\ \A n \in Paths : \A c \in Range(children[n]) : Cardinality(Places(n, c)) = 1

\* mid-scan, a directory holds a file and a directory that itself holds a file
C22_Witness ==
  /\ scanPc = "traverse"
  /\ \E n \in Tasks : \E f, d \in Range(children[n]) : \E g \in Range(children[d]) :
       ~IsDir(f) /\ IsDir(d) /\ ~IsDir(g)

\* the tasks that have entry c of a listing of node n in hand
Discoverers(n, c) ==
  { t \in Tasks : /\ pc[t] \in { "classify", "mark", "seqClassify", "seqMark" }
                  /\ Top(t).node = n
                  /\ Entry(t) = c }

\* every child names its parent, stands in that parent's list once and in
\* no other list; until the UI takes the tree over, every node that names a
\* parent stands in that parent's list; the root stands in no list
AttachedOnce ==
  /\ \A n \in Paths : \A c \in Range(children[n]) :
       parent[c] = n /\ Cardinality(Places(n, c)) = 1
  /\ m.scanning => Untouched
  /\ root # NULL => parent[root] = NULL

\* a step of the scan changes the tree only by appending to one node the
\* entry that a task scanning that node has in hand, and never changes a
\* back-reference once it is set
AttachOnly ==
  scanPc # "returned" =>
    /\ \A n \in Paths :
         \/ children'[n] = children[n]
         \/ \E c \in Paths :
              /\ parent[c] = NULL
              /\ Discoverers(n, c) # {}
              /\ children'[n] = Append(children[n], c)
              /\ parent'[c] = n
    /\ \A c \in Paths : parent[c] # NULL => parent'[c] = parent[c]

\* C23: every node but the root is attached to one parent, once, by the
\* task that found it in that parent's listing; its Parent names the node
\* whose child list holds it; the scan never detaches or re-attaches a node.
C23_AttachedOnceByDiscoverer == [](AttachedOnce) /\ [][AttachOnly]_vars

\* a goroutine scanning a depth-1 directory and the sequential descent below
\* it have both attached a node, and the scan has returned
C23_Witness ==
  /\ fs = "deep" /\ Completed
  /\ parent["/r/a/x"] = "/r/a"
  /\ parent["/r/a/x/d/f"] = "/r/a/x/d"
  /\ parent["/r/f"] = Root

(***************************************************************************)
(* Which task traverses which directory.                                   *)
(***************************************************************************)
RECURSIVE Depth(_)

\* the depth the scan passes down: 0 for the root, depth + 1 for a child
Depth(p) == IF p = Root THEN 0 ELSE 1 + Depth(Dir(p))

\* the frames on the call stack of task t
Frames(t) == Range(stack[t])

\* task t runs for directory t, which lies at depth 0, 1 or 2; the parallel
\* frame of a task is the one of its own directory; every other frame is
\* sequential, at depth 2 or deeper, for t or a directory below it
TaskOwnsSubtree ==
  \A t \in Tasks :
    /\ pc[t] # "idle" => Depth(t) \in { 0, 1, 2 }
    /\ \A fr \in Frames(t) :
         /\ fr.depth = Depth(fr.node)
         /\ fr.par => fr.node = t
         /\ ~fr.par => fr.depth >= 2 /\ (fr.node = t \/ Under(fr.node, t))

\* a task other than Scan's own call for the root starts only in the step in
\* which a task whose directory lies at depth 0 or 1 attaches the task's
\* directory to its own node, and a task that has started is never started
\* again
SpawnOnlyShallow ==
  \A c \in Tasks \ { Root } :
    (pc'[c] = "start" /\ pc[c] # "start") =>
      /\ pc[c] = "idle"
      /\ parent[c] = NULL /\ parent'[c] # NULL
      /\ Depth(parent'[c]) \in { 0, 1 }
      /\ pc[parent'[c]] = "mark" /\ Entry(parent'[c]) = c

\* C27: tasks are spawned only by directories at depth 0 and 1, one per
\* attached child directory; a directory at depth 2 or deeper and all below
\* it are traversed on the call stack of one task, which spawns none.
C27_SpawnOnlyAboveDepthTwo == [](TaskOwnsSubtree) /\ [][SpawnOnlyShallow]_vars

\* the task of the depth-2 directory /r/a/x has attached a file at depth 4
\* and no task was ever started for the depth-3 directory in between
C27_Witness ==
  /\ fs = "deep"
  /\ parent["/r/a/x/d/f"] = "/r/a/x/d"
  /\ pc["/r/a/x/d"] = "idle"
  /\ pc["/r/a/x"] = "done" /\ pc["/r/a"] = "done"

(***************************************************************************)
(* Work started after the cancellation.                                    *)
(***************************************************************************)
\* task t starts a listing in this step: its reader goroutine is launched
StartsListing(t) ==
  /\ pc'[t] \in { "listing", "seqListing" }
  /\ pc[t] \notin { "listing", "seqListing" }

\* the goroutine of task t is started in this step
StartsTask(t) == t # Root /\ pc[t] = "idle" /\ pc'[t] # "idle"

\* C28: once the cancellation signal is set, no step starts a directory
\* listing and no step starts a child traversal task.
C28_NoNewWorkAfterCancel ==
  [][cancelled => \A t \in Tasks : ~StartsListing(t) /\ ~StartsTask(t)]_vars

(***************************************************************************)
(* The reader goroutine left behind by a timeout.                          *)
(***************************************************************************)
\* a reader goroutine that was left behind ends in this step
ReaderEnds == abandoned' < abandoned

\* C29: the result of a listing that returns after its timeout changes no
\* child list, no back-reference, no error list, no skip list and no task,
\* and a reader goroutine that was left behind can always deliver and end.
C29_LateResultDiscarded ==
  /\ [](abandoned > 0 => ENABLED ReaderReturns)
  /\ [][ReaderEnds => UNCHANGED << tree, progress, skippedVolumes, pc, stack,
                                   workerSem, seenInodes >>]_vars

\* the listing of the dead mount /r/a/z timed out, its reader has returned
\* since, and the scan has ended with the one timeout error
C29_Witness ==
  /\ fs = "wide" /\ Completed
  /\ abandoned = 0
  /\ ErrorsOf("/r/a/z", "timeout") # {}
  /\ children["/r/a/z"] = << >>

(***************************************************************************)
(* An alias of the scan root inside the tree.                              *)
(***************************************************************************)
\* a directory entry below the root with the root's (device, inode)
RootAlias(e) == e # Root /\ IsDir(e) /\ SameInode(e, Root)

\* C30: a directory entry whose (device, inode) is the root's is never
\* attached and never listed, so nothing is attached below it.
C30_RootAliasNotDescended ==
  \A e \in Paths : RootAlias(e) =>
    /\ e \notin Descended
    /\ children[e] = << >>
    /\ \A t \in Tasks : \A fr \in Frames(t) : fr.node # e

(***************************************************************************)
(* The terminal UI.                                                        *)
(***************************************************************************)
\* C24: once the UI has handled ScanCompleteMsg, the errors view holds as
\* many errors as the scan recorded (the list only grows, so: the same
\* errors).
C24_ErrorsViewComplete ==
  ~m.scanning => m.errorsView = << Len(progress.errors) >>

\* all traversal tasks have ended and Scan has returned
ScanOver == scanPc = "returned" /\ \A t \in Tasks : pc[t] \in { "idle", "done" }

\* a node leaves the tree the UI shows
Detaches ==
  \/ \E n \in Paths : Len(children'[n]) < Len(children[n])
  \/ m.root # NULL /\ m'.root = NULL

\* a step taken while the model is scanning changes neither the marked
\* set nor the dialog, starts no deletion and detaches nothing
ScanningIsReadOnly ==
  m.scanning =>
    /\ m'.markedFiles = m.markedFiles
    /\ m'.activeModal = m.activeModal
    /\ filesToDelete' = filesToDelete
    /\ ~Detaches

\* C25: while the model is scanning, the mark key and the delete key change
\* nothing; the model stops scanning only when Scan has returned and every
\* traversal task has ended; a deletion runs and a node is detached only
\* after that.
C25_NoDeletionDuringScan ==
  /\ []((~m.scanning \/ filesToDelete # << >>) => ScanOver)
  /\ [][ScanningIsReadOnly /\ (Detaches => ~m.scanning /\ ScanOver)]_vars

\* the deletion of /r/a/f has detached it from the scanned tree
C25_Witness ==
  /\ UnderTUI /\ ~m.scanning
  /\ m.activeModal = "summary"
  /\ parent["/r/a/f"] = "/r/a" /\ children["/r/a"] = << >>
  /\ m.root = Root

\* startDeletion is called in this step
StartsDeletion == filesToDelete = << >> /\ filesToDelete' # << >>

\* the cancel key leaves the dialog, resets the confirmation, and neither
\* starts a deletion nor changes the marked set or the tree
CancelCloses ==
  /\ m'.activeModal = "none"
  /\ ~m'.sensitiveDeleteConfirmed
  /\ ~StartsDeletion
  /\ m'.markedFiles = m.markedFiles
  /\ UNCHANGED tree

\* C26: a deletion starts only from the confirmation dialog, for the marked
\* set, and for a set with a sensitive path only when a confirmation was
\* given before; the confirmation key starts it at once for a set without
\* sensitive paths, and for a set with one it first records the
\* confirmation and starts on the next press; a recorded confirmation
\* exists only inside the dialog; the cancel key closes the dialog, before
\* or after the first confirmation, without deleting and resets the record.
C26_SensitiveNeedsTwoConfirmations ==
  /\ [](m.sensitiveDeleteConfirmed =>
          m.activeModal = "confirm" /\ hasSensitive(m.markedFiles))
  /\ [][/\ StartsDeletion =>
             /\ m.activeModal = "confirm"
             /\ filesToDelete' = << m.markedFiles >>
             /\ hasSensitive(m.markedFiles) => m.sensitiveDeleteConfirmed
        /\ (KeyConfirm /\ ~hasSensitive(m.markedFiles)) => StartsDeletion
        /\ (KeyConfirm /\ hasSensitive(m.markedFiles)) =>
             IF m.sensitiveDeleteConfirmed
               THEN StartsDeletion
               ELSE /\ ~StartsDeletion
                    /\ m'.sensitiveDeleteConfirmed
                    /\ m'.activeModal = "confirm"
                    /\ UNCHANGED tree
        /\ KeyCancel => CancelCloses]_vars

\* the deletion of a marked set with a path below the home directory runs
C26_Witness ==
  /\ m.activeModal = "progress"
  /\ filesToDelete # << >>
  /\ "/r/a/f" \in filesToDelete[1]
  /\ ~m.sensitiveDeleteConfirmed

(***************************************************************************)
(* The shared collections.                                                 *)
(***************************************************************************)
\* sequence q2 is q, or q with one element appended
GrowsByAtMostOne(q, q2) ==
  \/ q2 = q
  \/ Len(q2) = Len(q) + 1 /\ SubSeq(q2, 1, Len(q)) = q

\* task t takes this step
Steps(t) == pc'[t] # pc[t] \/ stack'[t] # stack[t]

\* task t passes a recordError call in this step: a failed listing or a
\* failed entry.Info()
RecordsFailure(t) ==
  /\ Steps(t)
  /\ \/ pc[t] = "release" /\ Top(t).res # "ok"
     \/ pc[t] = "seqListing" /\ stack'[t][Len(stack'[t])].res # "ok"
     \/ pc[t] \in { "classify", "seqClassify" } /\ Classify(Entry(t)) = "staterr"

\* task t passes an append to skippedVolumes in this step
DecidesSkip(t) ==
  /\ Steps(t)
  /\ \/ pc[t] \in { "classify", "seqClassify" }
          /\ Classify(Entry(t)) \in { "network", "alias" }
     \/ pc[t] \in { "mark", "seqMark" } /\ shouldSkipFilesystemBoundary(Entry(t))

\* no step loses or rewrites an entry of the error list or the skip list,
\* forgets a seen inode or lowers a counter; a step that records a failure
\* or decides a skip adds exactly one entry, and no other step adds one
NoLostUpdate ==
  /\ GrowsByAtMostOne(progress.errors, progress'.errors)
  /\ GrowsByAtMostOne(skippedVolumes, skippedVolumes')
  /\ seenInodes \subseteq seenInodes'
  /\ progress'.files \in { progress.files, progress.files + 1 }
  /\ progress'.icloud \in { progress.icloud, progress.icloud + 1 }
  /\ (Len(progress'.errors) = Len(progress.errors) + 1)
       = (\E t \in Tasks : RecordsFailure(t))
  /\ (Len(skippedVolumes') = Len(skippedVolumes) + 1)
       = (\E t \in Tasks : DecidesSkip(t))

\* the entries of the used listings for which entry.Info() is called and fails
StatFailures ==
  { e \in Listed : /\ StatFails(e)
                   /\ ~isICloudPlaceholder(Name(e))
                   /\ ~ShouldSkipPath(skipNetwork, e) }

\* C31: the updates of the error list, the skip list, the dedup table and
\* the progress counters are atomic (each is made under its mutex): no step
\* loses an entry, each recorded failure and each skip decision adds exactly
\* one, and at the end of an uncancelled scan the error list holds exactly
\* one stat error per failing entry.
C31_NoLostUpdate ==
  /\ [][NoLostUpdate]_vars
  /\ []((Completed /\ ~cancelled /\ Untouched) =>
          /\ Cardinality({ i \in DOMAIN progress.errors : progress.errors[i].kind = "stat" })
               = Cardinality(StatFailures)
          /\ \A e \in StatFailures : Cardinality(ErrorsOf(e, "stat")) = 1)

\* two tasks have each recorded a stat failure and the scan has completed
C31_Witness ==
  /\ fs = "stat" /\ Completed /\ ~cancelled
  /\ Len(progress.errors) = 2
  /\ ErrorsOf("/r/a/gone", "stat") # {} /\ ErrorsOf("/r/b/y/lost", "stat") # {}

(***************************************************************************)
(* The throttle of updateProgress.                                         *)
(***************************************************************************)
\* task t passes its updateProgress call in this step
VisitStep(t) == pc[t] \in { "visit", "seqVisit" } /\ Steps(t)

\* this step offers a snapshot to the channel, as far as the state shows it
FlushAttempted ==
  lastProgressUpdate' # lastProgressUpdate \/ progressChan' # progressChan

\* a flush attempt has been made before
FlushedBefore == lastProgressUpdate # 0

\* the condition of updateProgress, read after the counter was raised
FlushDue ==
  \/ now' - lastProgressUpdate > FlushInterval
  \/ progress'.files % FlushEvery = 0

\* C32 as stated: a visit offers a snapshot only when more than the flush
\* interval has passed since the previous flush attempt, or the cumulative
\* count is a multiple of the count threshold.
C32_FlushOnlyWhenDue ==
  [][\A t \in Tasks : (VisitStep(t) /\ FlushAttempted) =>
        \/ FlushedBefore /\ now' - lastProgressUpdate > FlushInterval
        \/ progress'.files % FlushEvery = 0]_vars

\* C32 as amended: every visit sets the current path and raises the count
\* by one; it offers a snapshot exactly when a channel was given and either
\* the clock is more than the flush interval past lastProgressUpdate (which
\* is zero until the first attempt) or the count is a multiple of the
\* threshold; otherwise it touches neither the channel nor
\* lastProgressUpdate.
C32_FlushWhenDueOrFirst ==
  [][\A t \in Tasks : VisitStep(t) =>
        /\ progress' = [progress EXCEPT !.path = Entry(t), !.files = @ + 1]
        /\ IF chanGiven /\ FlushDue
             THEN /\ lastProgressUpdate' = now'
                  /\ progressChan' \in { progressChan,
                                         Append(progressChan, Snapshot(progress')) }
                  /\ Len(progressChan) < ChanCap => progressChan' # progressChan
             ELSE UNCHANGED << lastProgressUpdate, progressChan >>]_vars

\* the third entry has been visited with an empty channel and was not
\* offered: the consumer holds the snapshot of the second
C32_Witness ==
  /\ chanGiven /\ scanPc = "traverse"
  /\ progress.files = 3
  /\ progressChan = << >>
  /\ delivered # << >> /\ delivered[1].files = 2
  /\ \E t \in Tasks : pc[t] \in { "classify", "seqClassify" } /\ Entry(t) = progress.path

(***************************************************************************)
(* Cloud placeholders.                                                     *)
(***************************************************************************)
\* the paths whose name starts with "." and ends with ".icloud"
Placeholders ==
  { e \in Paths : /\ HasPrefix(Name(e), << "." >>)
                  /\ HasSuffix(Name(e), << ".", "i", "c", "l", "o", "u", "d" >>) }

\* task t has a placeholder as the entry of its loop in hand
AtPlaceholder(t) ==
  /\ pc[t] \in { "loop", "seqLoop" }
  /\ Top(t).idx <= Len(Top(t).entries)
  /\ Entry(t) \in Placeholders

\* a placeholder is no node, has no child, no task and no frame, no error
\* and no skip record, and is never the current path of updateProgress
PlaceholderUntouched ==
  \A e \in Placeholders :
    /\ parent[e] = NULL /\ children[e] = << >>
    /\ IsDir(e) => pc[e] = "idle"
    /\ \A t \in Tasks : \A fr \in Frames(t) : fr.node # e
    /\ \A i \in DOMAIN progress.errors : progress.errors[i].path # e
    /\ ReasonsOf(e) = {}
    /\ progress.path # e
    /\ \A sn \in Snapshots : sn.path # e

\* the step of a task over a placeholder, unless it leaves the loop on a
\* cancellation, raises the placeholder counter by one, moves to the next
\* entry and changes nothing else of the scan's results; no other step
\* changes the counter
PlaceholderCounted ==
  /\ \A t \in Tasks : (AtPlaceholder(t) /\ Steps(t) /\ ~cancelled) =>
       /\ progress' = [progress EXCEPT !.icloud = @ + 1]
       /\ stack'[t] = NextEntry(stack[t])
       /\ UNCHANGED << tree, skippedVolumes, seenInodes, progressChan >>
  /\ progress'.icloud # progress.icloud =>
       \E t \in Tasks : AtPlaceholder(t) /\ Steps(t)

\* C33: an entry named like a placeholder raises ICloudFilesSkipped by one
\* and is never stat'ed, attached, counted in FilesScanned or descended into.
C33_PlaceholderCountedOnly ==
  /\ [](PlaceholderUntouched)
  /\ [][PlaceholderCounted]_vars
  /\ []((Completed /\ ~cancelled /\ Untouched) =>
          progress.icloud = Cardinality(Listed \cap Placeholders))

\* the sequential loop has passed a directory named like a placeholder and
\* the scan has completed with the count of one
C33_Witness ==
  /\ fs = "wide" /\ Completed /\ ~cancelled
  /\ progress.icloud = 1
  /\ pc["/r/a/y"] = "done"
  /\ pc["/r/a/y/.d.icloud"] = "idle"

(***************************************************************************)
(* Removing a path from the tree.                                          *)
(***************************************************************************)
RECURSIVE TotalSizeIn(_, _)
RECURSIVE TotalFromIn(_, _, _, _)

\* FileNode.TotalSize of node n in the tree with the child lists ch
TotalFromIn(ch, n, i, total) ==
  IF i > Len(ch[n]) THEN total
  ELSE TotalFromIn(ch, n, i + 1, Wrap(total + TotalSizeIn(ch, ch[n][i])))

TotalSizeIn(ch, n) == IF ~IsDir(n) THEN Size(n) ELSE TotalFromIn(ch, n, 1, 0)

\* the nodes attached to the tree st = [root, ch]
Attached(st) == IF st.root = NULL THEN {} ELSE VisibleItems(st.ch, st.root)

\* the trees removeNodeFromTree can be given: the tree of the UI model, as
\* it stands, and the tree a returned scan hands over with ScanCompleteMsg
RemovableTrees ==
  { [root |-> m.root, ch |-> children] } \cup
  ( IF scanPc = "returned" /\ retRoot # NULL
      THEN { [root |-> retRoot, ch |-> children] } ELSE {} )

\* removing path target from tree st: nothing changes when no attached node
\* has the path; removing the root leaves no tree; otherwise the node is cut
\* out of its parent's list, the order of its siblings and every other list
\* is kept, the attached nodes are the former ones less the node's subtree
\* and the root's TotalSize is lowered by the TotalSize of the node
RemovalFrame(st, target) ==
  LET after == removeNodeFromTree(st, target) IN
    IF target \notin Attached(st) THEN after = st
    ELSE IF target = st.root
      THEN after.root = NULL /\ after.ch = st.ch /\ Attached(after) = {}
      ELSE LET par  == CHOOSE p \in Attached(st) :
                         \E i \in DOMAIN st.ch[p] : st.ch[p][i] = target
               keep(c) == c # target
           IN /\ after.root = st.root
              /\ \A n \in Paths \ { par } : after.ch[n] = st.ch[n]
              /\ after.ch[par] = SelectSeq(st.ch[par], keep)
              /\ Len(after.ch[par]) = Len(st.ch[par]) - 1
              /\ Attached(after) = Attached(st) \ VisibleItems(st.ch, target)
              /\ Wrap(TotalSizeIn(after.ch, st.root)
                        + TotalSizeIn(st.ch, target))
                   = TotalSizeIn(st.ch, st.root)

\* C34: removing a path detaches exactly the attached node with that path and
\* its subtree, keeps every other node and the order of the remaining
\* siblings, lowers the root's TotalSize by the node's TotalSize, and changes
\* nothing when no attached node has the path.
C34_RemovalFrame ==
  \A st \in RemovableTrees : \A target \in Paths : RemovalFrame(st, target)

\* the deletion of /r/a/f has been applied to the scanned tree: the file is
\* cut out of /r/a, which stays attached to the root
C34_Witness ==
  /\ fs = "home" /\ m.root = Root /\ ~m.scanning
  /\ m.activeModal = "none"
  /\ parent["/r/a/f"] = "/r/a"
  /\ Attached([root |-> m.root, ch |-> children]) = { "/r", "/r/a" }

(***************************************************************************)
(* The Top Items view (ui/views/toplist.go).                               *)
(***************************************************************************)
\* the trees the view is built over: the complete trees of these scenarios
TopScenarios == { "sample", "deep", "pair" }

\* os.FileInfo.ModTime of the double, in days
ModTime(p) ==
  CASE p = "/r"         -> 9
    [] p = "/r/f"       -> 3
    [] p = "/r/a"       -> 7
    [] p = "/r/b"       -> 3
    [] p = "/r/b/h"     -> 5
    [] p = "/r/b/g"     -> 1
    [] p = "/r/a/f"     -> 8
    [] p = "/r/a/x"     -> 7
    [] p = "/r/a/x/d"   -> 6
    [] p = "/r/a/x/d/f" -> 2
    [] OTHER            -> 0

\* the bytes that occur in the names of the double, in ascending order
ByteOrder ==
  << ".", "a", "b", "c", "d", "e", "f", "g", "h", "i", "l", "n", "o", "p",
     "r", "s", "t", "u", "x", "y", "z" >>

ByteRank(c) == CHOOSE i \in DOMAIN ByteOrder : ByteOrder[i] = c

\* the operator < of Go on two strings
RECURSIVE StringLess(_, _)
StringLess(a, b) ==
  IF b = << >> THEN FALSE
  ELSE IF a = << >> THEN TRUE
  ELSE IF Head(a) = Head(b) THEN StringLess(Tail(a), Tail(b))
  ELSE ByteRank(Head(a)) < ByteRank(Head(b))

\* the less functions of sortItems
ItemLess(mode, a, b) ==
  CASE mode = "size"     -> TotalSize(a) > TotalSize(b)
    [] mode = "name"     -> StringLess(Name(a), Name(b))
    [] mode = "modified" -> ModTime(a) > ModTime(b)

\* scanner.FlattenTree: the node, then the flattened subtrees of its children
RECURSIVE FlattenTree(_)
RECURSIVE flattenRecursive(_, _)
flattenRecursive(n, i) ==
  IF i > Len(children[n]) THEN << >>
  ELSE FlattenTree(children[n][i]) \o flattenRecursive(n, i + 1)

FlattenTree(n) == << n >> \o flattenRecursive(n, 1)

\* sort.Slice: the arrangements of the items of S in which no item is less
\* than an earlier one; the sort is not stable, items that compare equal
\* come in any order
RECURSIVE SortSlice(_, _)
SortSlice(S, mode) ==
  IF S = {} THEN { << >> }
  ELSE UNION { { << x >> \o q : q \in SortSlice(S \ { x }, mode) } :
               x \in { y \in S : \A z \in S : ~ItemLess(mode, z, y) } }

\* TopListView.sortItems: tlv[1].items is sorted in place; while both kinds are
\* shown tlv[1].items is the slice tlv[1].allItems itself ("tlv[1].items =
\* tlv[1].allItems"), which is then sorted with it
sortItems(v) ==
  { [v EXCEPT !.items = q,
              !.allItems = IF v.showFiles /\ v.showDirs THEN q ELSE @] :
      q \in SortSlice(Range(v.items), v.sortMode) }

\* TopListView.filterItems
filterItems(v) ==
  IF v.showFiles /\ v.showDirs THEN [v EXCEPT !.items = v.allItems]
  ELSE LET keep(item) == \/ IsDir(item) /\ v.showDirs
                         \/ ~IsDir(item) /\ v.showFiles
           filtered == SelectSeq(v.allItems, keep)
           clamped  == IF v.selectedIndex >= Len(filtered)
                         THEN Len(filtered) - 1 ELSE v.selectedIndex
       IN [v EXCEPT !.items = filtered,
                    !.selectedIndex = IF clamped < 0 THEN 0 ELSE clamped]

\* NewTopListView (buildItemList: FlattenTree, filterItems, sortItems)
NewTopListView(r) ==
  sortItems(filterItems([allItems |-> FlattenTree(r), items |-> << >>,
                         selectedIndex |-> 0, sortMode |-> "size",
                         showFiles |-> TRUE, showDirs |-> TRUE]))

\* everything but the view
notTop ==
  << config, scanPc, result, cancelled, root, startDeviceID, tree, pc, stack,
     workerSem, abandoned, progress, clock, progressChan, chanClosed,
     skippedVolumes, seenInodes, consumer, sawCancel, m, fwdPending, quit,
     filesToDelete, prev >>

\* TopListView.Update, key "up" or "k"
TopKeyUp ==
  /\ tlv # << >>
  /\ tlv' = IF tlv[1].selectedIndex > 0
              THEN << [tlv[1] EXCEPT !.selectedIndex = @ - 1] >> ELSE tlv
  /\ UNCHANGED notTop

\* TopListView.Update, key "down" or "j"
TopKeyDown ==
  /\ tlv # << >>
  /\ tlv' = IF tlv[1].selectedIndex < Len(tlv[1].items) - 1
              THEN << [tlv[1] EXCEPT !.selectedIndex = @ + 1] >> ELSE tlv
  /\ UNCHANGED notTop

\* TopListView.Update, key "s"
TopKeySort ==
  /\ tlv # << >>
  /\ \E v \in sortItems([tlv[1] EXCEPT !.sortMode =
                   CASE @ = "size" -> "name"
                     [] @ = "name" -> "modified"
                     [] @ = "modified" -> "size"]) : tlv' = << v >>
  /\ UNCHANGED notTop

\* TopListView.Update, key "f"
TopKeyFiles ==
  /\ tlv # << >>
  /\ tlv' = << filterItems([tlv[1] EXCEPT !.showFiles = ~@]) >>
  /\ UNCHANGED notTop

\* TopListView.Update, key "d"
TopKeyDirs ==
  /\ tlv # << >>
  /\ tlv' = << filterItems([tlv[1] EXCEPT !.showDirs = ~@]) >>
  /\ UNCHANGED notTop

\* a view built by NewTopListView over the root of a complete tree
InitTop ==
  /\ fs \in TopScenarios /\ chanGiven = FALSE
  /\ oneFilesystem = TRUE
  /\ skipNetwork = TRUE
  /\ scanPc = "init"
  /\ retRoot = NULL
  /\ retErr = "none"
  /\ cancelled = FALSE
  /\ root = Root
  /\ startDeviceID = 0
  /\ children = [p \in Paths |-> Listing(fs, p)]
  /\ parent = [p \in Paths |->
                 IF \E d \in Paths : p \in Range(Listing(fs, d))
                   THEN CHOOSE d \in Paths : p \in Range(Listing(fs, d))
                   ELSE NULL]
  /\ pc = [t \in Tasks |-> "idle"]
  /\ stack = [t \in Tasks |-> << >>]
  /\ workerSem = {}
  /\ abandoned = 0
  /\ progress = [path |-> NULL, files |-> 0, bytes |-> 0, errors |-> << >>,
                 complete |-> FALSE, icloud |-> 0]
  /\ lastProgressUpdate = 0
  /\ now = StartTime
  /\ progressChan = << >>
  /\ chanClosed = FALSE
  /\ skippedVolumes = << >>
  /\ seenInodes = {}
  /\ delivered = << >>
  /\ consumerDone = FALSE
  /\ sawCancel = {}
  /\ m = [scanning |-> TRUE, root |-> NULL, err |-> "none",
          progress |-> [path |-> NULL, files |-> 0, bytes |-> 0, nerr |-> 0,
                        complete |-> FALSE],
          skippedVolumes |-> << >>,
          visible |-> {}, errorsView |-> << >>, markedFiles |-> {},
          activeModal |-> "none", sensitiveDeleteConfirmed |-> FALSE]
  /\ fwdPending = FALSE
  /\ quit = FALSE
  /\ filesToDelete = << >>
  /\ \E v \in NewTopListView(Root) : tlv = << v >>
  /\ prev = << >>

NextTop ==
  \/ TopKeyUp
  \/ TopKeyDown
  \/ TopKeySort
  \/ TopKeyFiles
  \/ TopKeyDirs

SpecTop == InitTop /\ [][NextTop]_vars

\* the displayed items are in the order of the selected sort mode: none is
\* less than an item displayed before it
DisplayedInOrder ==
  \A i, j \in DOMAIN tlv[1].items :
    i < j => ~ItemLess(tlv[1].sortMode, tlv[1].items[j], tlv[1].items[i])

\* the selected index is 0 or the index of a displayed item
SelectionInList ==
  tlv[1].selectedIndex = 0 \/ tlv[1].selectedIndex \in 0 .. Len(tlv[1].items) - 1

\* C35: after any sequence of the keys "s", "f" and "d" the displayed items
\* are ordered by the selected sort mode and the selected index is 0 or lies
\* within the displayed list.
C35_SortedAndSelected == tlv # << >> => DisplayedInOrder /\ SelectionInList

\* the part of it about the selection alone
SelectionKept == tlv # << >> => SelectionInList

(***************************************************************************)
(* Listing requests per directory.                                         *)
(***************************************************************************)
\* a readDirWithTimeout call on directory d has returned to a frame that is
\* still on the stack of some task
HasListing(d) ==
  \E t \in Tasks : \E fr \in Frames(t) : fr.node = d /\ fr.res # "none"

\* C36: every directory that is traversed has its listing requested exactly
\* once during a scan, at whatever depth: no listing is started for a
\* directory whose traversal already holds the result of one.
C36_ListingRequestedOnce ==
  [][\A t \in Tasks :
       StartsListing(t) => ~HasListing(stack'[t][Len(stack'[t])].node)]_vars

(***************************************************************************)
(* The state Scan returns in.                                              *)
(***************************************************************************)
\* no traversal task is running: each has not been started or has returned,
\* and holds no token of the semaphore
TasksFinished ==
  \A t \in Tasks : pc[t] \in { "idle", "done" } /\ t \notin workerSem

\* a step that handles the result of a deletion command in the UI
HandlesDeletion == filesToDelete # << >> /\ filesToDelete' = << >>

\* nothing of what the scan has returned is changed by this step, unless it
\* is the UI that removes deleted nodes from the tree
ResultsKept ==
  /\ UNCHANGED << result, root, parent, progress, skippedVolumes, seenInodes,
                  pc, stack >>
  /\ children' # children => HandlesDeletion

\* C37: when Scan has returned, after completion, cancellation or a failure of
\* the root, every traversal task it started has finished, and no later step
\* of the scanner changes the tree, the error list or the skip list.
C37_NothingRunsAfterReturn ==
  /\ [](scanPc = "returned" => TasksFinished)
  /\ [][scanPc = "returned" => ResultsKept]_vars

\* a cancelled scan has returned with a partial tree: a spawned task left on
\* the cancellation, and a reader goroutine of a timed-out listing is still
\* running
C37_Witness ==
  /\ scanPc = "returned" /\ retErr = "ctx" /\ retRoot = Root
  /\ \E t \in Tasks \ { Root } : pc[t] = "done" /\ t \in sawCancel
  /\ abandoned > 0

(***************************************************************************)
(* The close of the progress channel.                                      *)
(***************************************************************************)
\* close(progressChan) runs in this step
Closes == scanPc = "close" /\ scanPc' # "close"

\* a snapshot is put into the channel in this step
Sends ==
  /\ progressChan' # progressChan
  /\ progressChan = << >> \/ progressChan' # Tail(progressChan)

\* C38: no task sends on the progress channel after Scan has closed it, and a
\* scan closes the channel at most once: the close runs only when every
\* traversal task has finished, on a channel that is not closed yet, and
\* after it no task takes a step and nothing is sent.
C38_NoSendAfterClose ==
  /\ [][Closes => ~chanClosed /\ chanClosed' /\ TasksFinished]_vars
  /\ [][chanClosed' # chanClosed => Closes]_vars
  /\ [][chanClosed => ~Sends /\ \A t \in Tasks : ~Steps(t)]_vars

\* a completed scan has closed the channel after its spawned tasks have
\* returned, with a snapshot still in the buffer
C38_Witness ==
  /\ chanClosed /\ scanPc = "returned" /\ retErr = "none"
  /\ \E t \in Tasks \ { Root } : pc[t] = "done"
  /\ Len(progressChan) = ChanCap
  /\ delivered # << >>

(***************************************************************************)
(* What becomes of the visited entries.                                    *)
(***************************************************************************)
\* the attached nodes other than the root
NonRootNodes == { n \in Paths \ { Root } : InTree(n) }

\* the records of the error list for a failed entry.Info()
StatErrors == { i \in DOMAIN progress.errors : progress.errors[i].kind = "stat" }

\* the skip records about path e
SkipRecordsOf(e) == { i \in DOMAIN skippedVolumes : skippedVolumes[i].path = e }

\* the number of ends entry e has come to: attached node, skip record, stat
\* error
Ends(e) ==
  (IF InTree(e) THEN 1 ELSE 0)
    + Cardinality(SkipRecordsOf(e)) + Cardinality(ErrorsOf(e, "stat"))

\* C39: when a scan that was not cancelled has completed, FilesScanned equals
\* the number of non-root nodes plus the number of skip records plus the
\* number of entry-stat errors; no path has come to more than one of these
\* ends and no placeholder to any.
C39_VisitedEntriesAccounted ==
  (Completed /\ ~cancelled /\ Untouched) =>
    /\ progress.files = Cardinality(NonRootNodes) + Len(skippedVolumes)
                          + Cardinality(StatErrors)
    /\ \A e \in Paths \ { Root } : Ends(e) <= 1
    /\ \A e \in Placeholders : Ends(e) = 0

\* a completed scan with all three ends: attached nodes, skip records and a
\* stat error, beside a placeholder that was not counted
C39_Witness ==
  /\ Completed /\ ~cancelled /\ fs = "mixed"
  /\ progress.files = 5
  /\ Cardinality(NonRootNodes) > 0
  /\ Len(skippedVolumes) > 0
  /\ Cardinality(StatErrors) = 1
  /\ progress.icloud = 1

(***************************************************************************)
(* A second Scan call on the same Scanner.                                 *)
(***************************************************************************)
\* what the caller holds after a Scan call: the tree and the sizes that
\* GetProgress and GetSkippedVolumes report
Outcome ==
  [root |-> retRoot, children |-> children, files |-> progress.files,
   errors |-> Len(progress.errors), skips |-> Len(skippedVolumes)]

\* the caller, having got the tree of a completed scan, calls Scan again on
\* the same Scanner with a new context and, if it gave a channel, a new
\* channel and forwarder. Scan builds new nodes; the Scanner keeps progress,
\* lastProgressUpdate, skippedVolumes and seenInodes as they are
ScanAgain ==
  /\ ~UnderTUI
  /\ prev = << >>
  /\ Completed /\ ~cancelled
  /\ prev' = << Outcome >>
  /\ scanPc' = "init"
  /\ retRoot' = NULL
  /\ retErr' = "none"
  /\ children' = [p \in Paths |-> << >>]
  /\ parent' = [p \in Paths |-> NULL]
  /\ pc' = [t \in Tasks |-> "idle"]
  /\ stack' = [t \in Tasks |-> << >>]
  /\ progressChan' = << >>
  /\ chanClosed' = FALSE
  /\ delivered' = << >>
  /\ consumerDone' = FALSE
  /\ UNCHANGED << config, cancelled, root, startDeviceID, workerSem, abandoned,
                  progress, clock, skippedVolumes, seenInodes, sawCancel, m,
                  fwdPending, quit, filesToDelete, tlv >>

NextTwice == Next \/ ScanAgain

SpecTwice == Init /\ [][NextTwice]_vars

\* C40: two successive Scan calls on the same Scanner over an unchanged
\* filesystem return equal trees, and the error list, the skip list and
\* FilesScanned after the second call describe the second scan only: they
\* are those of the first call over again.
C40_SecondScanSameResult ==
  (prev # << >> /\ Completed /\ ~cancelled) =>
    /\ retRoot = prev[1].root
    /\ children = prev[1].children
    /\ progress.files = prev[1].files
    /\ Len(progress.errors) = prev[1].errors
    /\ Len(skippedVolumes) = prev[1].skips
=============================================================================
